---- MODULE Spec2Model ----
(***************************************************************************)
(* Model of the rate-limiting / admission-control subsystem of Megawatts:  *)
(* the PriorityQueue, the MemoryRateLimitStore, the BucketManager, the     *)
(* DiscordRateLimitMiddleware and the DiscordRateLimitOrchestrator.        *)
(*                                                                         *)
(* Specifications:                                                         *)
(*   SpecPQ  the PriorityQueue class alone, driven by arbitrary callers    *)
(*   SpecBM  the store, the BucketManager and the orchestrator's bucket    *)
(*           API, one call at a time                                       *)
(*   SpecCC  concurrent consumeRequest callers, one store access per step  *)
(*   SpecMW  the middleware: execute, the drain loop, the transport's      *)
(*           responses, retries; FairSpecMW adds the scheduling fairness   *)
(*   SpecSD  the middleware under an orchestrator that is shut down        *)
(*   SpecLC  enqueue, the drain loop and shutdown, no retries              *)
(*   SpecBQ  requests attached to buckets: queueRequest, deleteBucket      *)
(*   SpecST  the store's methods, export / import of its state             *)
(*   SpecRL  the middleware with a transport answering 2xx or 429          *)
(*   SpecHD  the middleware with a transport whose answers carry the       *)
(*           rate-limit headers                                            *)
(*   SpecDF  orchestrator.enqueue filling in a request's defaults          *)
(*   SpecAD  admission: execute and the drain loop under bucket and        *)
(*           global limits                                                 *)
(*   SpecRD  the middleware over a store whose backend can be down         *)
(*   SpecIV  the bucket API fed with parsed server numbers                 *)
(*   SpecRX  the PriorityQueue's enqueue and removeExpired                 *)
(*   SpecPR  the PriorityQueue's enqueue, dequeue and promoteRequests      *)
(*   SpecSH  the drain loop and the cleanup interval around shutdown;      *)
(*           FairSpecSH adds the loop's scheduling fairness                *)
(*   SpecBI  bucket ids derived from a request's url and method            *)
(*   SpecHL  the drain loop over requests of several buckets; FairSpecHL   *)
(*           adds the scheduling fairness                                  *)
(*   SpecCA  the bucket API and clearAll                                   *)
(*   SpecMT  the middleware with the store's outcome counters followed     *)
(***************************************************************************)
EXTENDS Integers, Sequences, FiniteSets, TLC

\* ---------------------------------------------------------------- bounds
NReq == 3          \* request objects that exist
maxSize == 2       \* PriorityQueue constructor argument maxSize
MaxTime == 2       \* the clock Date.now() runs over 0..MaxTime
DefaultLimit == 2        \* defaultLimit of a bucket created on first reference
DefaultResetAfter == 1   \* defaultResetAfter, the length of a default window
NCallers == 3      \* concurrent consumeRequest callers
MaxRetries == 1    \* maxRetries of a request
RequestTimeout == 1   \* timeout of a request, in clock ticks
MaxCount == 1      \* the store's request counters are followed up to MaxCount

\* ---------------------------------------------------------------- constants
CRITICAL == 0
HIGH == 1
NORMAL == 2
LOW == 3
BULK == 4

Reqs == 1..NReq
Callers == 1..NCallers
Tiers == CRITICAL..BULK
Buckets == {"b1", "b2"}
Times == 0..MaxTime
\* the timestamps callers put on their requests: an older and a newer one
Stamps == {0, 1}
NoReq == 0
NoTier == 0 - 1
NoBucket == [limit |-> 0 - 1, remaining |-> 0 - 1, resetAt |-> 0 - 1, requests |-> {}]
NoLimit == [resetAfter |-> 0 - 1]
NoCall == [at |-> 0 - 1, T |-> 0]
NoWindow == [end |-> 0 - 1, granted |-> 0, over |-> 0 - 1, sent |-> 0]
\* the priority values callers put on their requests: three tiers and a value
\* outside the RequestPriority enum
Priorities == {CRITICAL, NORMAL, BULK, BULK + 1}
\* the newPriority arguments tried for promoteRequests: below the enum, two
\* tiers, above the enum
PromoteTargets == {NoTier, HIGH, LOW, BULK + 1}
\* the timeoutMs arguments tried for removeExpired
Timeouts == {0, 1}
\* the resetAfter values a rate-limit info carries
ResetAfters == 0..MaxTime
\* the rate-limit infos handed to handleRateLimit: global ones, and bucket
\* ones naming a bucket or none, with the server's limit and remaining
GlobalInfos ==
  {[global |-> TRUE, bucket |-> "", limit |-> 0, remaining |-> 0, resetAfter |-> T] :
     T \in ResetAfters}
BucketInfos ==
  {[global |-> FALSE, bucket |-> b, limit |-> 1, remaining |-> r, resetAfter |-> T] :
     b \in Buckets \cup {""}, r \in {0, 1}, T \in {1, MaxTime}}
Infos == GlobalInfos \cup BucketInfos

VARIABLES
  queues,      \* PriorityQueue.queues: tier -> sequence of request ids
  totalSize,   \* PriorityQueue.totalSize
  req,         \* the QueuedRequest objects: id -> [priority, timestamp, bucketId]
  now,         \* Date.now()
  fifo,        \* history: per tier, the queued ids in the order enqueue() accepted them
  ret          \* what the last call returned to its caller; "queued", "full"
               \* and "invalid" are returned by enqueue alone, "request" and
               \* "null" by dequeue alone

VARIABLES
  buckets,     \* MemoryRateLimitStore.buckets: id -> bucket or NoBucket
  globalLimit, \* MemoryRateLimitStore.globalLimit: NoLimit or [resetAfter |-> deadline]
  isShutdown,  \* DiscordRateLimitOrchestrator.isShutdown
  lastGlobal,  \* history: the last handleRateLimit({global: true}) a running
               \* orchestrator took, [at |-> time of the call, T |-> its resetAfter]
  window,      \* history: per bucket id, the end of the window its last default
               \* creation opened, the consumeRequest calls that returned
               \* true in it, and the remaining of the expired bucket that
               \* creation replaced (-1: it replaced none), and the httpClient
               \* calls started in it, [end, granted, over, sent]
  cpc,         \* per consumeRequest caller: where it is in the call
  cbucket,     \* per caller: the bucket id it works on
  clocal,      \* per caller: the bucket it read from the store
  lock         \* per bucket id: the caller inside the read-modify-write, or 0

VARIABLES
  phase,       \* per request: "new" (not submitted), "queued", "held" (dequeued
               \* by the drain loop, admission being re-checked), "flight"
               \* (httpClient called, no response yet), "backoff" (retry delay
               \* running), "done", "dropped" (referenced by nothing)
  promise,     \* per request: the promise execute() handed to the caller,
               \* "none", "pending", "resolved" or "rejected"
  link,        \* per request: what the caller's promise waits for: "exec" (the
               \* executeRequest call started by execute), "handle" (the queue
               \* promise whose resolve/reject are in request.resolve/reject),
               \* "lost" (a queue promise whose handle was overwritten)
  path,        \* per request: who started its executeRequest, "immediate"
               \* (execute) or "drain" (processQueue)
  retryCount,  \* per request: request.retryCount
  echo,        \* per request: an executeRequest started by the drain loop
               \* returned the current queue promise, so its then/catch will
               \* call request.resolve/reject once more when that settles
  calls,       \* per request: times the handle in request.resolve/reject was
               \* called when the request finished
  loopPc,      \* processQueue: "run" (about to dequeue), "check" (awaiting
               \* canExecuteRequest), "sleep" (awaiting a setTimeout)
  loopReq      \* processQueue: the request it dequeued, or NoReq

VARIABLES
  processing,  \* DiscordRateLimitMiddleware.processing
  atShutdown,  \* history: the requests that were in the priority queue, or
               \* dequeued by the drain loop and awaiting its admission check,
               \* when shutdown() was called
  metrics,     \* MemoryRateLimitStore.metrics; no decision of the code reads
               \* them, they are followed in the store's own specification
  sends        \* history: per request, the httpClient calls made for it

pqv == <<queues, totalSize, req, fifo>>
mwv == <<phase, promise, link, path, retryCount, echo, calls, loopPc, loopReq, sends>>
lcv == <<processing, atShutdown, metrics>>
stv == <<buckets, globalLimit, isShutdown, lastGlobal, window>>
ccv == <<cpc, cbucket, clocal, lock>>
vars == <<queues, totalSize, req, now, fifo, ret,
          buckets, globalLimit, isShutdown, lastGlobal, window,
          cpc, cbucket, clocal, lock,
          phase, promise, link, path, retryCount, echo, calls, loopPc, loopReq,
          processing, atShutdown, metrics, sends>>

\* the request object before a caller has filled it in
FreshReq ==
  [priority |-> NoTier, timestamp |-> 0, bucketId |-> "none",
   maxRetries |-> 0, timeout |-> 0]

\* ------------------------------------------------------------ sequences
RECURSIVE SeqToSet(_)
SeqToSet(s) == IF s = <<>> THEN {} ELSE {Head(s)} \cup SeqToSet(Tail(s))

RECURSIVE Reverse(_)
Reverse(s) == IF s = <<>> THEN <<>> ELSE Append(Reverse(Tail(s)), Head(s))

RECURSIVE Filter(_, _)
\* the elements of s that are in set keep, in order
Filter(s, keep) ==
  IF s = <<>> THEN <<>>
  ELSE IF Head(s) \in keep THEN <<Head(s)>> \o Filter(Tail(s), keep)
       ELSE Filter(Tail(s), keep)

RECURSIVE SumLen(_, _)
SumLen(q, p) == IF p > BULK THEN 0 ELSE Len(q[p]) + SumLen(q, p + 1)

InQueue(q) == UNION {SeqToSet(q[p]) : p \in Tiers}

\* ------------------------------------------------------- PriorityQueue
RECURSIVE InsertByTimestamp(_, _, _)
\* one step of the stable sort: x goes behind every element whose timestamp
\* is not greater (comparator a.timestamp - b.timestamp; Array.prototype.sort
\* is stable)
InsertByTimestamp(s, x, rq) ==
  IF s = <<>> THEN <<x>>
  ELSE IF rq[Head(s)].timestamp <= rq[x].timestamp
       THEN <<Head(s)>> \o InsertByTimestamp(Tail(s), x, rq)
       ELSE <<x>> \o s

RECURSIVE SortFrom(_, _, _)
SortFrom(done, rest, rq) ==
  IF rest = <<>> THEN done
  ELSE SortFrom(InsertByTimestamp(done, Head(rest), rq), Tail(rest), rq)

\* SortByTimestamp with the sort left out
SortByTimestampNone(s, rq) == s

\* queue.sort((a, b) => a.timestamp - b.timestamp)
SortByTimestamp(s, rq) == SortFrom(<<>>, s, rq)

RECURSIVE ScanFromBottom(_, _)
\* ScanFrom walking the tiers from BULK upwards
ScanFromBottom(q, p) ==
  IF p > BULK THEN NoTier
  ELSE IF Len(q[BULK - p]) > 0 THEN BULK - p ELSE ScanFromBottom(q, p + 1)

RECURSIVE ScanFrom(_, _)
\* for (let priority = 0; priority <= 4; priority++): the first non-empty tier
ScanFrom(q, p) ==
  IF p > BULK THEN NoTier
  ELSE IF Len(q[p]) > 0 THEN p ELSE ScanFrom(q, p + 1)

\* QueueIsFull answering full for every size
QueueIsFullAlways(size) == TRUE

\* QueueIsFull off by one: the queue takes one request too many
QueueIsFullLate(size) == size > maxSize

\* if (this.totalSize >= this.maxSize)
QueueIsFull(size) == size >= maxSize

\* PriorityQueue.enqueue(request) on queue state (q, size); rq holds the request
\* objects, r is the request.  out is how the returned promise starts:
\* "queued" (pending), "full" or "invalid" (rejected at once); attached tells
\* whether request.resolve / request.reject were overwritten.
Enqueue(q, size, rq, r) ==
  IF QueueIsFull(size)
  THEN [queues |-> q, totalSize |-> size, out |-> "full", attached |-> FALSE]
  ELSE IF rq[r].priority \in Tiers
  THEN [queues |-> [q EXCEPT ![rq[r].priority] = SortByTimestamp(Append(@, r), rq)],
        totalSize |-> size + 1, out |-> "queued", attached |-> TRUE]
  ELSE [queues |-> q, totalSize |-> size, out |-> "invalid", attached |-> TRUE]

\* PriorityQueue.dequeue(): id is the request returned, NoReq for null
Dequeue(q, size) ==
  LET p == ScanFrom(q, CRITICAL)
  IN IF p = NoTier
     THEN [queues |-> q, totalSize |-> size, id |-> NoReq]
     ELSE [queues |-> [q EXCEPT ![p] = Tail(@)], totalSize |-> size - 1,
           id |-> Head(q[p])]

\* the requests removeExpired(timeoutMs) splices out at time t
Expired(q, rq, t, timeoutMs) ==
  {r \in InQueue(q) : t - rq[r].timestamp > timeoutMs}

\* the requests clearBucket(bucketId) splices out
OfBucket(q, rq, b) == {r \in InQueue(q) : rq[r].bucketId = b}

\* the splice without its totalSize--
RemoveUncounted(q, size, gone) ==
  [queues |-> [p \in Tiers |-> Filter(q[p], Reqs \ gone)],
   totalSize |-> size,
   rejected |-> gone \cap InQueue(q)]

\* the queue after removeExpired / clearBucket / clear spliced the set gone
\* out of it, rejecting each: one totalSize-- per request removed
Remove(q, size, gone) ==
  [queues |-> [p \in Tiers |-> Filter(q[p], Reqs \ gone)],
   totalSize |-> size - Cardinality(gone \cap InQueue(q)),
   rejected |-> gone \cap InQueue(q)]

\* PriorityQueue.clear(): every queue emptied, totalSize = 0
Clear(q, size) ==
  [queues |-> [p \in Tiers |-> <<>>], totalSize |-> 0, rejected |-> InQueue(q)]

RECURSIVE RequestsToMove(_, _, _, _, _)
\* the first loop of promoteRequests: the tiers in Map order, each walked from
\* its last index down, the matching requests spliced out and pushed
RequestsToMove(q, rq, b, newPriority, p) ==
  IF p > BULK THEN <<>>
  ELSE (IF p > newPriority
        THEN Reverse(Filter(q[p], {r \in Reqs : rq[r].bucketId = b}))
        ELSE <<>>) \o RequestsToMove(q, rq, b, newPriority, p + 1)

\* promoteRequests without the totalSize++ of its second loop
PromoteRequestsUncounted(q, size, rq, b, newPriority) ==
  LET moved == RequestsToMove(q, rq, b, newPriority, CRITICAL)
      gone == SeqToSet(moved)
      rest == [p \in Tiers |-> Filter(q[p], Reqs \ gone)]
      rq2 == [r \in Reqs |-> IF r \in gone
                             THEN [rq[r] EXCEPT !.priority = newPriority]
                             ELSE rq[r]]
  IN [queues |-> IF newPriority \in Tiers
                   THEN [rest EXCEPT ![newPriority] = SortByTimestamp(@ \o moved, rq2)]
                   ELSE rest,
      totalSize |-> size - Len(moved), req |-> rq2, moved |-> gone, n |-> Len(moved)]

\* PriorityQueue.promoteRequests(bucketId, newPriority): the new queues, size
\* and request objects, and the number returned
PromoteRequests(q, size, rq, b, newPriority) ==
  LET moved == RequestsToMove(q, rq, b, newPriority, CRITICAL)
      gone == SeqToSet(moved)
      rest == [p \in Tiers |-> Filter(q[p], Reqs \ gone)]
      rq2 == [r \in Reqs |-> IF r \in gone
                             THEN [rq[r] EXCEPT !.priority = newPriority]
                             ELSE rq[r]]
  IN IF newPriority \in Tiers
     THEN [queues |-> [rest EXCEPT ![newPriority] = SortByTimestamp(@ \o moved, rq2)],
           totalSize |-> size, req |-> rq2, moved |-> gone, n |-> Len(moved)]
     ELSE [queues |-> rest, totalSize |-> size - Len(moved), req |-> rq,
           moved |-> gone, n |-> 0]

\* --------------------------------------------- PriorityQueue, its callers
\* the request objects a removal hands back leave the model
Forget(rq, gone) == [r \in Reqs |-> IF r \in gone THEN FreshReq ELSE rq[r]]

\* a caller builds request r (priority p, timestamp ts, bucketId b) and calls
\* enqueue(r); the request objects are interchangeable, the lowest free one is used
PQEnqueue(r, p, ts, b) ==
  /\ r \notin InQueue(queues)
  /\ \A r2 \in Reqs \ InQueue(queues) : r <= r2
  /\ LET rq == [req EXCEPT ![r] = [priority |-> p, timestamp |-> ts, bucketId |-> b,
                                    maxRetries |-> MaxRetries,
                                    timeout |-> RequestTimeout]]
         e == Enqueue(queues, totalSize, rq, r)
     IN /\ queues' = e.queues
        /\ totalSize' = e.totalSize
        /\ req' = IF e.out = "queued" THEN rq ELSE req
        /\ fifo' = IF e.out = "queued" THEN [fifo EXCEPT ![p] = Append(@, r)] ELSE fifo
        /\ ret' = e.out
  /\ UNCHANGED <<lcv, now, stv, ccv, mwv>>

\* a caller calls dequeue()
PQDequeue ==
  LET d == Dequeue(queues, totalSize)
  IN /\ queues' = d.queues
     /\ totalSize' = d.totalSize
     /\ req' = Forget(req, {d.id})
     /\ fifo' = [p \in Tiers |-> Filter(fifo[p], Reqs \ {d.id})]
     /\ ret' = IF d.id = NoReq THEN "null" ELSE "request"
     /\ UNCHANGED <<lcv, now, stv, ccv, mwv>>

\* a caller calls removeExpired(timeoutMs)
PQRemoveExpired(timeoutMs) ==
  LET rm == Remove(queues, totalSize, Expired(queues, req, now, timeoutMs))
  IN /\ queues' = rm.queues
     /\ totalSize' = rm.totalSize
     /\ req' = Forget(req, rm.rejected)
     /\ fifo' = [p \in Tiers |-> Filter(fifo[p], Reqs \ rm.rejected)]
     /\ ret' = "void"
     /\ UNCHANGED <<lcv, now, stv, ccv, mwv>>

\* a caller calls clearBucket(bucketId)
PQClearBucket(b) ==
  LET rm == Remove(queues, totalSize, OfBucket(queues, req, b))
  IN /\ queues' = rm.queues
     /\ totalSize' = rm.totalSize
     /\ req' = Forget(req, rm.rejected)
     /\ fifo' = [p \in Tiers |-> Filter(fifo[p], Reqs \ rm.rejected)]
     /\ ret' = "void"
     /\ UNCHANGED <<lcv, now, stv, ccv, mwv>>

\* a caller calls clear()
PQClear ==
  LET c == Clear(queues, totalSize)
  IN /\ queues' = c.queues
     /\ totalSize' = c.totalSize
     /\ req' = Forget(req, c.rejected)
     /\ fifo' = [p \in Tiers |-> <<>>]
     /\ ret' = "void"
     /\ UNCHANGED <<lcv, now, stv, ccv, mwv>>

\* a caller calls promoteRequests(bucketId, newPriority)
PQPromoteRequests(b, newPriority) ==
  LET pr == PromoteRequests(queues, totalSize, req, b, newPriority)
  IN /\ queues' = pr.queues
     /\ totalSize' = pr.totalSize
     /\ req' = Forget(pr.req, pr.moved \ InQueue(pr.queues))
     /\ fifo' = [p \in Tiers |-> Filter(fifo[p], Reqs \ pr.moved)]
     /\ ret' = "void"
     /\ UNCHANGED <<lcv, now, stv, ccv, mwv>>

\* the clock advances
PQTick ==
  /\ now < MaxTime
  /\ now' = now + 1
  /\ ret' = "void"
  /\ UNCHANGED <<lcv, pqv, mwv, stv, ccv>>

\* the ids of the buckets in the store's map
Stored(bs) == {b \in Buckets : bs[b] # NoBucket}

\* resetMetrics() at time t, and the metrics the constructor sets; the
\* averageResponseTime, which no code updates, is left out
ResetMetrics(bs, t) ==
  [totalRequests |-> 0, successfulRequests |-> 0, rateLimitedRequests |-> 0,
   failedRequests |-> 0, bucketCount |-> Cardinality(Stored(bs)), queueSize |-> 0,
   globalRateLimits |-> 0, lastReset |-> t]

\* new PriorityQueue(maxSize)
InitQueue ==
  /\ queues = [p \in Tiers |-> <<>>]
  /\ totalSize = 0
  /\ req = [r \in Reqs |-> FreshReq]
  /\ fifo = [p \in Tiers |-> <<>>]

\* new MemoryRateLimitStore(), new DiscordRateLimitOrchestrator(...)
InitStore ==
  /\ buckets = [b \in Buckets |-> NoBucket]
  /\ globalLimit = NoLimit
  /\ isShutdown = FALSE
  /\ lastGlobal = NoCall
  /\ window = [b \in Buckets |-> NoWindow]
  /\ metrics = ResetMetrics([b \in Buckets |-> NoBucket], 0)

\* no consumeRequest call is under way
InitCallers ==
  /\ cpc = [c \in Callers |-> "idle"]
  /\ cbucket = [c \in Callers |-> "none"]
  /\ clocal = [c \in Callers |-> NoBucket]
  /\ lock = [b \in Buckets |-> 0]

\* new DiscordRateLimitMiddleware(...): startQueueProcessor() has run
InitMiddleware ==
  /\ phase = [r \in Reqs |-> "new"]
  /\ promise = [r \in Reqs |-> "none"]
  /\ link = [r \in Reqs |-> "none"]
  /\ path = [r \in Reqs |-> "none"]
  /\ retryCount = [r \in Reqs |-> 0]
  /\ echo = [r \in Reqs |-> FALSE]
  /\ calls = [r \in Reqs |-> 0]
  /\ loopPc = "run"
  /\ loopReq = NoReq
  /\ sends = [r \in Reqs |-> 0]
  /\ processing = TRUE
  /\ atShutdown = {}

InitPQ ==
  /\ InitQueue
  /\ InitStore
  /\ InitCallers
  /\ InitMiddleware
  /\ now = 0
  /\ ret = "void"

NextPQ ==
  \/ \E r \in Reqs, p \in Priorities, ts \in Stamps, b \in Buckets :
       PQEnqueue(r, p, ts, b)
  \/ PQDequeue
  \/ \E t \in Timeouts : PQRemoveExpired(t)
  \/ \E b \in Buckets : PQClearBucket(b)
  \/ \E b \in Buckets, np \in PromoteTargets : PQPromoteRequests(b, np)
  \/ PQClear
  \/ PQTick

SpecPQ == InitPQ /\ [][NextPQ]_vars

\* ------------------------------------------------- claims on SpecPQ
\* the tier a dequeue() step took its request from, NoTier when it took none
TakenFrom(q, q2) ==
  IF \E p \in Tiers : q2[p] # q[p]
  THEN CHOOSE p \in Tiers : q2[p] # q[p]
  ELSE NoTier

\* positions of the members of set S in sequence s
Pos(s, x) == CHOOSE i \in 1..Len(s) : s[i] = x

\* C1: dequeue() returns a request of the lowest-numbered non-empty tier, so
\* never a request of tier p2 while a tier p1 < p2 holds a request, and it
\* returns null only when all five tiers are empty
C1_DequeueLowestTier ==
  [][PQDequeue =>
       /\ (ret' = "null") <=> (\A p \in Tiers : queues[p] = <<>>)
       /\ ret' = "request" =>
            LET p == TakenFrom(queues, queues')
            IN /\ p \in Tiers
               /\ Len(queues'[p]) = Len(queues[p]) - 1
               /\ \A p1 \in Tiers : p1 < p => queues[p1] = <<>>
               /\ \A p2 \in Tiers : p2 # p => queues'[p2] = queues[p2]]_vars

\* C1 witness: a dequeue() has returned a request and left a request behind
C1_Witness ==
  /\ ret = "request"
  /\ queues[CRITICAL] = <<>>
  /\ \E p \in Tiers : queues[p] # <<>>

Held(q) == SumLen(q, CRITICAL)

\* C10: getTotalSize() never exceeds maxSize, and an enqueue on a queue that
\* holds maxSize requests is rejected with the queue-full error and changes
\* neither the queue's contents nor its size
C10_Bounded ==
  /\ [](totalSize <= maxSize /\ Held(queues) <= maxSize)
  /\ [][(ret' \in {"queued", "full", "invalid"} /\ Held(queues) = maxSize) =>
          /\ ret' = "full"
          /\ queues' = queues
          /\ totalSize' = totalSize
          /\ req' = req]_vars

\* C10 witness: an enqueue has been rejected by a queue holding maxSize requests
C10_Witness == ret = "full" /\ Held(queues) = maxSize /\ totalSize = maxSize

\* -------------------------------------------------- MemoryRateLimitStore
\* StoreGetBucket without the expiry check
StoreGetBucketStale(bs, b, t) == [buckets |-> bs, bucket |-> bs[b]]

\* StoreGetBucket taking every bucket for expired
StoreGetBucketGone(bs, b, t) ==
  [buckets |-> [bs EXCEPT ![b] = NoBucket], bucket |-> NoBucket]

\* getBucket(bucketId) at time t: the bucket returned (NoBucket for null) and
\* the map afterwards; a bucket with Date.now() > resetAt is deleted
StoreGetBucket(bs, b, t) ==
  IF bs[b] = NoBucket THEN [buckets |-> bs, bucket |-> NoBucket]
  ELSE IF t > bs[b].resetAt
    THEN [buckets |-> [bs EXCEPT ![b] = NoBucket], bucket |-> NoBucket]
    ELSE [buckets |-> bs, bucket |-> bs[b]]

\* StoreSetBucket losing the write
StoreSetBucketLost(bs, b, bucket) == bs

\* setBucket(bucketId, bucket)
StoreSetBucket(bs, b, bucket) == [bs EXCEPT ![b] = bucket]

\* deleteBucket(bucketId)
StoreDeleteBucket(bs, b) == [bs EXCEPT ![b] = NoBucket]

\* getAllBuckets() at time t: the ids of the buckets returned, the expired
\* ones deleted
StoreGetAllBuckets(bs, t) ==
  [buckets |-> [b \in Buckets |->
                  IF bs[b] # NoBucket /\ t <= bs[b].resetAt THEN bs[b] ELSE NoBucket],
   active |-> {b \in Buckets : bs[b] # NoBucket /\ t <= bs[b].resetAt}]

\* clearExpiredBuckets() at time t
ClearExpiredBuckets(bs, t) ==
  [b \in Buckets |-> IF bs[b] # NoBucket /\ t > bs[b].resetAt THEN NoBucket ELSE bs[b]]

\* getGlobalLimit() at time t: the limit returned (NoLimit for null) and the
\* field afterwards
StoreGetGlobalLimit(gl, t) ==
  IF gl = NoLimit THEN [globalLimit |-> NoLimit, limit |-> NoLimit]
  ELSE IF t > gl.resetAfter
    THEN [globalLimit |-> NoLimit, limit |-> NoLimit]
    ELSE [globalLimit |-> gl, limit |-> gl]

\* StoreSetGlobalLimit storing the bare duration
StoreSetGlobalLimitBare(info, t) == [resetAfter |-> info.resetAfter]

\* setGlobalLimit(limit) at time t: resetAfter: Date.now() + limit.resetAfter
StoreSetGlobalLimit(info, t) == [resetAfter |-> t + info.resetAfter]

\* ---------------------------------------------------------- BucketManager
\* the bucket getBucket creates on first reference
NewBucket(t) ==
  [limit |-> DefaultLimit, remaining |-> DefaultLimit, resetAt |-> t + DefaultResetAfter,
   requests |-> {}]

\* getBucket(bucketId): create-or-fetch
BMGetBucket(bs, b, t) ==
  LET g == StoreGetBucket(bs, b, t)
  IN IF g.bucket # NoBucket
       THEN [buckets |-> g.buckets, bucket |-> g.bucket, created |-> FALSE]
       ELSE [buckets |-> StoreSetBucket(g.buckets, b, NewBucket(t)),
             bucket |-> NewBucket(t), created |-> TRUE]

\* isRateLimited(bucketId): the global limit first, then remaining <= 0 with
\* resetAt in the future
BMIsRateLimited(bs, gl, b, t) ==
  LET l == StoreGetGlobalLimit(gl, t)
      g == StoreGetBucket(bs, b, t)
  IN IF l.limit # NoLimit /\ t < l.limit.resetAfter
       THEN [buckets |-> bs, globalLimit |-> l.globalLimit, limited |-> TRUE]
       ELSE [buckets |-> g.buckets, globalLimit |-> l.globalLimit,
             limited |-> g.bucket # NoBucket /\ g.bucket.remaining <= 0
                           /\ g.bucket.resetAt > t]

\* the check and decrement of consumeRequest on the bucket it read
NoTokens(bucket) == bucket.remaining <= 0
Decrement(bucket) == [bucket EXCEPT !.remaining = @ - 1]

\* consumeRequest(bucketId), run without interruption
BMConsumeRequest(bs, b, t) ==
  LET g == BMGetBucket(bs, b, t)
  IN IF NoTokens(g.bucket)
       THEN [buckets |-> g.buckets, ok |-> FALSE, created |-> g.created]
       ELSE [buckets |-> StoreSetBucket(g.buckets, b, Decrement(g.bucket)),
             ok |-> TRUE, created |-> g.created]

\* updateBucket(bucketId, info): the server's numbers replace those of the
\* bucket, which keeps the requests attached to it
BMUpdateBucket(bs, b, info, t) ==
  LET g == StoreGetBucket(bs, b, t)
  IN StoreSetBucket(g.buckets, b,
                    [limit |-> info.limit, remaining |-> info.remaining,
                     resetAt |-> t + info.resetAfter, requests |-> g.bucket.requests])

\* handleRateLimit(bucketId, info)
BMHandleRateLimit(bs, gl, b, info, t) ==
  IF info.global
    THEN [buckets |-> bs, globalLimit |-> StoreSetGlobalLimit(info, t)]
    ELSE [buckets |-> BMUpdateBucket(bs, b, info, t), globalLimit |-> gl]

\* queueRequest(bucketId, request): the request is attached to the bucket,
\* created on first reference
BMQueueRequest(bs, b, r, t) ==
  LET g == BMGetBucket(bs, b, t)
  IN [buckets |-> StoreSetBucket(g.buckets, b, [g.bucket EXCEPT !.requests = @ \cup {r}]),
      created |-> g.created]

\* deleteBucket(bucketId): the requests attached to the bucket the store
\* returns are rejected, the bucket is deleted
BMDeleteBucket(bs, b, t) ==
  LET g == StoreGetBucket(bs, b, t)
  IN [buckets |-> StoreDeleteBucket(g.buckets, b), rejected |-> g.bucket.requests]

\* the per-bucket mutex around the read-modify-write of remaining
LockIsFree(lk, b) == lk[b] = 0

\* ------------------------------------------- DiscordRateLimitMiddleware
\* the admission check switched off
MWIsRateLimitedNever(bs, gl, b, t) ==
  [buckets |-> bs, globalLimit |-> gl, limited |-> FALSE]

\* isRateLimited(bucketId)
MWIsRateLimited(bs, gl, b, t) ==
  LET l == StoreGetGlobalLimit(gl, t)
  IN IF l.limit # NoLimit /\ t < l.limit.resetAfter
       THEN [buckets |-> bs, globalLimit |-> l.globalLimit, limited |-> TRUE]
       ELSE BMIsRateLimited(bs, l.globalLimit, b, t)

\* ------------------------------------------------------------- history
\* the window record after a getBucket / consumeRequest at time t on a bucket
\* id the store held as old, which created the bucket (created) and granted
\* a token (ok): a creation after the end of the last window opens a new one
Account(w, old, t, created, ok) ==
  LET opened == IF created /\ t > w.end
                  THEN [end |-> t + DefaultResetAfter, granted |-> 0,
                        over |-> old.remaining, sent |-> 0]
                  ELSE w
  IN IF ok /\ opened.end >= 0 /\ t <= opened.end
       THEN [opened EXCEPT !.granted = @ + 1] ELSE opened

\* ------------------------------------- store, BucketManager, orchestrator
\* what a call returned: the operation, its bucket id and its result
Returned(op, b, val) == [op |-> op, b |-> b, val |-> val]

\* a caller calls bucketManager.getBucket(b)
BMGet(b) ==
  LET g == BMGetBucket(buckets, b, now)
  IN /\ buckets' = g.buckets
     /\ window' = [window EXCEPT ![b] = Account(@, buckets[b], now, g.created, FALSE)]
     /\ ret' = Returned("getBucket", b, g.bucket)
     /\ UNCHANGED <<lcv, pqv, mwv, ccv, now, globalLimit, isShutdown, lastGlobal>>

\* a caller calls bucketManager.consumeRequest(b)
BMConsume(b) ==
  LET c == BMConsumeRequest(buckets, b, now)
  IN /\ buckets' = c.buckets
     /\ window' = [window EXCEPT ![b] = Account(@, buckets[b], now, c.created, c.ok)]
     /\ ret' = Returned("consumeRequest", b, c.ok)
     /\ UNCHANGED <<lcv, pqv, mwv, ccv, now, globalLimit, isShutdown, lastGlobal>>

\* a caller calls orchestrator.isRateLimited(b), which is
\* middleware.isRateLimited(b)
OrchIsRateLimited(b) ==
  LET m == MWIsRateLimited(buckets, globalLimit, b, now)
  IN /\ buckets' = m.buckets
     /\ globalLimit' = m.globalLimit
     /\ ret' = Returned("isRateLimited", b, m.limited)
     /\ UNCHANGED <<lcv, pqv, mwv, ccv, now, isShutdown, lastGlobal, window>>

\* orchestrator.handleRateLimit(info)
HandleRateLimit(info) ==
  /\ IF isShutdown
       THEN UNCHANGED <<buckets, globalLimit, lastGlobal, window>>
       ELSE IF info.global
         THEN /\ globalLimit' = StoreSetGlobalLimit(info, now)
              /\ lastGlobal' = [at |-> now, T |-> info.resetAfter]
              /\ UNCHANGED <<buckets, window>>
         ELSE IF info.bucket # ""
           THEN LET h == BMHandleRateLimit(buckets, globalLimit, info.bucket, info, now)
                IN /\ buckets' = h.buckets
                   /\ globalLimit' = h.globalLimit
                   /\ window' = [window EXCEPT ![info.bucket] = NoWindow]
                   /\ UNCHANGED lastGlobal
           ELSE UNCHANGED <<buckets, globalLimit, lastGlobal, window>>
  /\ UNCHANGED isShutdown

\* a caller calls orchestrator.handleRateLimit(info)
OrchHandleRateLimit(info) ==
  /\ HandleRateLimit(info)
  /\ ret' = Returned("handleRateLimit", info.bucket, info.global)
  /\ UNCHANGED <<lcv, pqv, mwv, ccv, now>>

\* the store's cleanup interval fires: clearExpiredBuckets()
StoreSweep ==
  /\ ~isShutdown
  /\ buckets' = ClearExpiredBuckets(buckets, now)
  /\ UNCHANGED <<lcv, pqv, mwv, ccv, now, ret, globalLimit, isShutdown, lastGlobal, window>>

\* the caller's promises after queue.clear() / clearBucket / removeExpired
\* called request.reject on the requests in gone: the call settles the promise
\* whose handle the request holds
RejectQueued(gone) ==
  [r \in Reqs |-> IF r \in gone /\ link[r] = "handle" THEN "rejected" ELSE promise[r]]

\* shutdown() returning at once when it has run before, dropped
AlreadyShutdownNever(sd) == FALSE

\* shutdown(): if (this.isShutdown) return
AlreadyShutdown(sd) == sd

\* shutdown() without middleware.stop(): the loop's flag stays set
ShutdownLoopRunning ==
  IF AlreadyShutdown(isShutdown)
    THEN UNCHANGED <<isShutdown, processing, queues, totalSize, phase, promise, calls,
                     atShutdown, buckets, globalLimit, metrics, lastGlobal, window>>
    ELSE LET c == Clear(queues, totalSize)
         IN /\ isShutdown' = TRUE
            /\ processing' = processing
            /\ queues' = c.queues
            /\ totalSize' = c.totalSize
            /\ phase' = [r \in Reqs |-> IF r \in c.rejected THEN "done" ELSE phase[r]]
            /\ promise' = RejectQueued(c.rejected)
            /\ calls' = [r \in Reqs |-> IF r \in c.rejected
                                          THEN (IF echo[r] THEN 2 ELSE 1) ELSE calls[r]]
            /\ atShutdown' = c.rejected \cup (IF loopReq = NoReq THEN {} ELSE {loopReq})
            /\ buckets' = [b \in Buckets |-> NoBucket]
            /\ globalLimit' = NoLimit
            /\ metrics' = ResetMetrics([b \in Buckets |-> NoBucket], now)
            /\ lastGlobal' = NoCall
            /\ window' = [b \in Buckets |-> NoWindow]

\* orchestrator.shutdown(): isShutdown = true, the cleanup interval cleared,
\* middleware.stop(), middleware.clearQueue(), store.destroy()
Shutdown ==
  IF AlreadyShutdown(isShutdown)
    THEN UNCHANGED <<isShutdown, processing, queues, totalSize, phase, promise, calls,
                     atShutdown, buckets, globalLimit, metrics, lastGlobal, window>>
    ELSE LET c == Clear(queues, totalSize)
         IN /\ isShutdown' = TRUE
            /\ processing' = FALSE
            /\ queues' = c.queues
            /\ totalSize' = c.totalSize
            /\ phase' = [r \in Reqs |-> IF r \in c.rejected THEN "done" ELSE phase[r]]
            /\ promise' = RejectQueued(c.rejected)
            /\ calls' = [r \in Reqs |-> IF r \in c.rejected
                                          THEN (IF echo[r] THEN 2 ELSE 1) ELSE calls[r]]
            /\ atShutdown' = c.rejected \cup (IF loopReq = NoReq THEN {} ELSE {loopReq})
            /\ buckets' = [b \in Buckets |-> NoBucket]
            /\ globalLimit' = NoLimit
            /\ metrics' = ResetMetrics([b \in Buckets |-> NoBucket], now)
            /\ lastGlobal' = NoCall
            /\ window' = [b \in Buckets |-> NoWindow]

\* a caller calls orchestrator.shutdown(); val tells whether it had run before
OrchShutdown ==
  /\ Shutdown
  /\ ret' = Returned("shutdown", "", isShutdown)
  /\ UNCHANGED <<now, req, fifo, ccv, link, path, retryCount, echo, loopPc, loopReq, sends>>

\* the clock advances
Tick ==
  /\ now < MaxTime
  /\ now' = now + 1
  /\ UNCHANGED <<lcv, pqv, mwv, stv, ccv, ret>>

InitBM ==
  /\ InitQueue
  /\ InitStore
  /\ InitCallers
  /\ InitMiddleware
  /\ now = 0
  /\ ret = Returned("none", "", FALSE)

NextBM ==
  \/ \E b \in Buckets : BMGet(b)
  \/ \E b \in Buckets : BMConsume(b)
  \/ \E b \in Buckets : OrchIsRateLimited(b)
  \/ \E info \in Infos : OrchHandleRateLimit(info)
  \/ StoreSweep
  \/ OrchShutdown
  \/ Tick

SpecBM == InitBM /\ [][NextBM]_vars

\* ------------------------------------- concurrent consumeRequest callers
\* caller c calls consumeRequest(b)
CCCall(c, b) ==
  /\ cpc[c] = "idle"
  /\ cbucket' = [cbucket EXCEPT ![c] = b]
  /\ cpc' = [cpc EXCEPT ![c] = "wait"]
  /\ UNCHANGED <<lcv, pqv, mwv, stv, now, ret, clocal, lock>>

\* caller c takes the mutex of its bucket
CCAcquire(c) ==
  /\ cpc[c] = "wait"
  /\ LockIsFree(lock, cbucket[c])
  /\ lock' = [lock EXCEPT ![cbucket[c]] = c]
  /\ cpc' = [cpc EXCEPT ![c] = "read"]
  /\ UNCHANGED <<lcv, pqv, mwv, stv, now, ret, clocal, cbucket>>

\* caller c reads the bucket: await this.getBucket(bucketId)
CCRead(c) ==
  /\ cpc[c] = "read"
  /\ LET g == BMGetBucket(buckets, cbucket[c], now)
     IN /\ buckets' = g.buckets
        /\ clocal' = [clocal EXCEPT ![c] = g.bucket]
        /\ window' = [window EXCEPT ![cbucket[c]] =
                         Account(@, buckets[cbucket[c]], now, g.created, FALSE)]
  /\ cpc' = [cpc EXCEPT ![c] = "write"]
  /\ UNCHANGED <<lcv, pqv, mwv, now, ret, globalLimit, isShutdown, lastGlobal, cbucket, lock>>

\* caller c checks the bucket it read, decrements it and writes it back:
\* await this.store.setBucket(bucketId, bucket)
CCWrite(c) ==
  /\ cpc[c] = "write"
  /\ IF NoTokens(clocal[c])
       THEN /\ ret' = Returned("consumeRequest", cbucket[c], FALSE)
            /\ UNCHANGED <<buckets, window>>
       ELSE /\ buckets' = StoreSetBucket(buckets, cbucket[c], Decrement(clocal[c]))
            /\ window' = [window EXCEPT ![cbucket[c]] =
                             Account(@, buckets[cbucket[c]], now, FALSE, TRUE)]
            /\ ret' = Returned("consumeRequest", cbucket[c], TRUE)
  /\ cpc' = [cpc EXCEPT ![c] = "release"]
  /\ UNCHANGED <<lcv, pqv, mwv, now, globalLimit, isShutdown, lastGlobal, cbucket, clocal, lock>>

\* caller c releases the mutex and returns
CCRelease(c) ==
  /\ cpc[c] = "release"
  /\ lock' = [lock EXCEPT ![cbucket[c]] = IF @ = c THEN 0 ELSE @]
  /\ cbucket' = [cbucket EXCEPT ![c] = "none"]
  /\ clocal' = [clocal EXCEPT ![c] = NoBucket]
  /\ cpc' = [cpc EXCEPT ![c] = "idle"]
  /\ UNCHANGED <<lcv, pqv, mwv, stv, now, ret>>

\* the store's cleanup interval fires while calls are under way
CCSweep ==
  /\ buckets' = ClearExpiredBuckets(buckets, now)
  /\ UNCHANGED <<lcv, pqv, mwv, ccv, now, ret, globalLimit, isShutdown, lastGlobal, window>>

NextCC ==
  \/ \E c \in Callers, b \in Buckets : CCCall(c, b)
  \/ \E c \in Callers : CCAcquire(c)
  \/ \E c \in Callers : CCRead(c)
  \/ \E c \in Callers : CCWrite(c)
  \/ \E c \in Callers : CCRelease(c)
  \/ CCSweep
  \/ Tick

SpecCC == InitBM /\ [][NextCC]_vars

\* ------------------------------------------------- claims on SpecCC
\* the callers that are inside consumeRequest(b)
Inside(b) == {c \in Callers : cpc[c] # "idle" /\ cbucket[c] = b}

Live(b) == buckets[b] # NoBucket /\ now <= buckets[b].resetAt

\* C7: a bucket created with limit L grants exactly L sequential
\* consumeRequest calls in its window: remaining plus the calls granted is L,
\* a call on a bucket with tokens returns true and lowers remaining by exactly
\* one, a call on a bucket without tokens returns false and leaves limit,
\* remaining and resetAt as they were
C7_Sequential ==
  /\ [](\A b \in Buckets :
         /\ window[b].granted <= DefaultLimit
         /\ (window[b].end >= 0 /\ buckets[b] # NoBucket) =>
               /\ buckets[b].limit = DefaultLimit
               /\ buckets[b].resetAt = window[b].end
               /\ buckets[b].remaining + window[b].granted = buckets[b].limit)
  /\ [][\A b \in Buckets : (BMConsume(b) /\ Live(b)) =>
          IF buckets[b].remaining > 0
            THEN /\ ret'.val = TRUE
                 /\ buckets'[b] = [buckets[b] EXCEPT !.remaining = @ - 1]
            ELSE /\ ret'.val = FALSE
                 /\ buckets'[b] = buckets[b]]_vars

\* C7 witness: a window has granted L calls and the call after them has been
\* refused, the bucket still in its window with nothing remaining
C7_Witness ==
  \E b \in Buckets :
    /\ ret = Returned("consumeRequest", b, FALSE)
    /\ window[b].granted = DefaultLimit
    /\ Live(b)
    /\ buckets[b].remaining = 0
    /\ buckets[b].limit = DefaultLimit

\* bucket b is in the store although its resetAt has passed
Elapsed(b) == buckets[b] # NoBucket /\ now > buckets[b].resetAt

\* no global limit blocks the buckets
NoGlobalBlock == globalLimit = NoLimit \/ now >= globalLimit.resetAfter

\* C8: the first getBucket, consumeRequest or isRateLimited on a bucket whose
\* resetAt has passed behaves as on a bucket created at that moment: getBucket
\* returns a full default bucket, consumeRequest returns true and leaves
\* limit - 1, isRateLimited returns false; no resetBucket and no sweep needed
C8_ElapsedIsFresh ==
  [][\A b \in Buckets : Elapsed(b) =>
       /\ BMGet(b) => /\ ret'.val = NewBucket(now)
                       /\ buckets'[b] = NewBucket(now)
                       /\ buckets'[b].remaining = buckets'[b].limit
       /\ BMConsume(b) => /\ ret'.val = TRUE
                           /\ buckets'[b] = Decrement(NewBucket(now))
       /\ (OrchIsRateLimited(b) /\ NoGlobalBlock) => ret'.val = FALSE]_vars

\* C8 witness: a consumeRequest has been granted by the bucket created in
\* place of an exhausted bucket whose resetAt had passed
C8_Witness ==
  \E b \in Buckets :
    /\ ret = Returned("consumeRequest", b, TRUE)
    /\ window[b].over = 0
    /\ window[b].granted = 1
    /\ window[b].end = now + DefaultResetAfter
    /\ buckets[b] = Decrement(NewBucket(now))

\* C9: after a running orchestrator took handleRateLimit with global = true
\* and resetAfter = T (the last such call), isRateLimited(b) returns true for
\* every b at every time before T has elapsed since the call, and returns
\* false once T has elapsed if b holds no bucket with remaining <= 0
C9_GlobalBlocks ==
  [][\A b \in Buckets : (OrchIsRateLimited(b) /\ lastGlobal # NoCall) =>
       /\ now < lastGlobal.at + lastGlobal.T => ret'.val = TRUE
       /\ (/\ now >= lastGlobal.at + lastGlobal.T
           /\ ~(buckets[b] # NoBucket /\ buckets[b].remaining <= 0)) =>
             ret'.val = FALSE]_vars

\* C9 witness: isRateLimited(b) has returned true for a bucket id that is not
\* in the store, some time after the call and before T has elapsed
C9_Witness ==
  \E b \in Buckets :
    /\ ret = Returned("isRateLimited", b, TRUE)
    /\ buckets[b] = NoBucket
    /\ lastGlobal # NoCall
    /\ lastGlobal.at < now
    /\ now < lastGlobal.at + lastGlobal.T

\* ------------------------------------------- DiscordRateLimitMiddleware
\* the priority values and bucket ids of the requests submitted to execute
MWPriorities == {NORMAL}
MWBuckets == {"b1"}
\* the global limits the server reports while requests are under way
MWInfos == {info \in GlobalInfos : info.resetAfter = 1}
\* what the transport answers: 2xx, 429 with retry_after, 5xx (or no answer:
\* timeout, connection reset), a 4xx other than 429, and such a 4xx whose
\* body carries a message with the word "timeout" in it
Responses == {"ok", "limited", "error", "fatal", "fatalTimeout"}
\* the 429 answers: one for the request's bucket, one with x-ratelimit-global
TooMany == {"limited", "limitedGlobal"}
\* a 429 that reports no delay
RetryAfterZero == {0}

\* the retry_after values of a 429
RetryAfters == {1}

\* the window record after an httpClient call started at time t
Sent(w, t) ==
  IF w.end >= 0 /\ t < w.end
    THEN [w EXCEPT !.sent = IF @ > DefaultLimit THEN @ ELSE @ + 1]
    ELSE w

\* the caller's promise after request r's executeRequest ended with outcome:
\* an execution started by execute settles it directly, one started by the
\* drain loop calls request.resolve / request.reject
FinishPromise(r, outcome) ==
  [promise EXCEPT ![r] =
     IF path[r] = "immediate" \/ link[r] = "handle" THEN outcome ELSE @]

\* the calls of request.resolve / request.reject that ending r's execution
\* causes: the drain loop's then/catch, and that of an earlier execution
\* waiting on the same queue promise
FinishCalls(r) ==
  [calls EXCEPT ![r] = IF path[r] = "drain" THEN (IF echo[r] THEN 2 ELSE 1) ELSE @]

\* the guard of orchestrator.enqueue dropped
EnqueueRefusedNever(sd) == FALSE

\* orchestrator.enqueue: if (this.isShutdown) throw
EnqueueRefused(sd) == sd

\* middleware.execute(request) for request r with the fields f and bucket b
Execute(r, f, b) ==
     LET rq == [req EXCEPT ![r] = [priority |-> f.priority, timestamp |-> now,
                                   bucketId |-> b, maxRetries |-> f.maxRetries,
                                   timeout |-> f.timeout]]
         m == MWIsRateLimited(buckets, globalLimit, b, now)
         c == BMConsumeRequest(m.buckets, b, now)
         e == Enqueue(queues, totalSize, rq, r)
     IN /\ req' = rq
        /\ globalLimit' = m.globalLimit
        /\ IF m.limited \/ ~c.ok
             THEN /\ buckets' = IF m.limited THEN m.buckets ELSE c.buckets
                  /\ window' = IF m.limited THEN window
                               ELSE [window EXCEPT ![b] =
                                       Account(@, buckets[b], now, c.created, FALSE)]
                  /\ queues' = e.queues
                  /\ totalSize' = e.totalSize
                  /\ phase' = [phase EXCEPT ![r] =
                                 IF e.out = "queued" THEN "queued" ELSE "done"]
                  /\ promise' = [promise EXCEPT ![r] =
                                   IF e.out = "queued" THEN "pending" ELSE "rejected"]
                  /\ link' = [link EXCEPT ![r] =
                                IF e.out = "queued" THEN "handle" ELSE "none"]
                  /\ UNCHANGED <<path, sends>>
             ELSE /\ buckets' = c.buckets
                  /\ window' = [window EXCEPT ![b] =
                                  Sent(Account(@, buckets[b], now, c.created, TRUE), now)]
                  /\ phase' = [phase EXCEPT ![r] = "flight"]
                  /\ promise' = [promise EXCEPT ![r] = "pending"]
                  /\ link' = [link EXCEPT ![r] = "exec"]
                  /\ path' = [path EXCEPT ![r] = "immediate"]
                  /\ sends' = [sends EXCEPT ![r] = @ + 1]
                  /\ UNCHANGED <<queues, totalSize>>

\* a field the caller left out of the request
Undefined == 0 - 2

\* !x of JavaScript for a numeric field: undefined and 0 are falsy
Falsy(x) == x = Undefined \/ x = 0

\* getPriorityFromEndpoint(request.url) for the URLs of the requests submitted
EndpointPriority == NORMAL

\* the defaults orchestrator.enqueue fills in: config.maxRetries ||
\* DEFAULT_RATE_LIMIT_CONFIG.maxRetries, config.requestTimeout ||
\* DEFAULT_RATE_LIMIT_CONFIG.requestTimeout
DefaultMaxRetries == 3
DefaultRequestTimeout == 30000

\* orchestrator.enqueue: "Set default values if not provided" on the fields f
FillDefaults(f) ==
  [priority |-> IF Falsy(f.priority) THEN EndpointPriority ELSE f.priority,
   maxRetries |-> IF Falsy(f.maxRetries) THEN DefaultMaxRetries ELSE f.maxRetries,
   timeout |-> IF Falsy(f.timeout) THEN DefaultRequestTimeout ELSE f.timeout]

\* the fields of a request of priority p whose caller supplies every field
Supplied(p) == [priority |-> p, maxRetries |-> MaxRetries, timeout |-> RequestTimeout]

\* a caller calls orchestrator.enqueue(request) with a new request r that
\* has the fields f, for bucket b: the shutdown error, or the defaults and
\* execute(request); the request objects are interchangeable, the lowest
\* unused one is taken.  Callers submit while the clock can still reach the
\* end of the window a new bucket opens.
OrchEnqueue(r, f, b) ==
  /\ phase[r] = "new"
  /\ \A o \in Reqs : o < r => phase[o] # "new"
  /\ isShutdown \/ now + DefaultResetAfter <= MaxTime
  /\ IF EnqueueRefused(isShutdown)
       THEN /\ phase' = [phase EXCEPT ![r] = "refused"]
            /\ promise' = [promise EXCEPT ![r] = "rejected"]
            /\ UNCHANGED <<req, buckets, globalLimit, window, queues, totalSize,
                           link, path, sends>>
       ELSE Execute(r, FillDefaults(f), b)
  /\ UNCHANGED <<lcv, now, ret, fifo, isShutdown, lastGlobal, ccv,
                 retryCount, echo, calls, loopPc, loopReq>>

\* orchestrator.enqueue(request) with a request of priority p whose caller
\* supplied maxRetries and timeout
MWExecute(r, p, b) == OrchEnqueue(r, Supplied(p), b)

\* processQueue: const request = this.queue.dequeue()
LoopDequeue ==
  /\ loopPc = "run"
  /\ processing
  /\ LET d == Dequeue(queues, totalSize)
     IN /\ queues' = d.queues
        /\ totalSize' = d.totalSize
        /\ IF d.id = NoReq
             THEN /\ loopPc' = "sleep"
                  /\ UNCHANGED <<loopReq, phase>>
             ELSE /\ loopPc' = "check"
                  /\ loopReq' = d.id
                  /\ phase' = [phase EXCEPT ![d.id] = "held"]
  /\ UNCHANGED <<lcv, now, ret, req, fifo, stv, ccv,
                 promise, link, path, retryCount, echo, calls, sends>>

\* processQueue: while (this.processing) finds the flag cleared by stop()
LoopExit ==
  /\ loopPc = "run"
  /\ ~processing
  /\ loopPc' = "exit"
  /\ UNCHANGED <<lcv, now, ret, pqv, stv, ccv,
                 phase, promise, link, path, retryCount, echo, calls, loopReq, sends>>

\* the loop suspended until the executeRequest call it started has settled
LoopAfterDispatchAwaited == "await"

\* where processQueue continues after this.executeRequest(request).then(..)
\* .catch(..): the call is not awaited, the loop is at its while test again
LoopAfterDispatch == "run"

\* processQueue: canExecuteRequest(request) has answered; the request is put
\* back with this.queue.enqueue(request), or executeRequest(request) is started
LoopCheck ==
  /\ loopPc = "check"
  /\ LET r == loopReq
         m == MWIsRateLimited(buckets, globalLimit, req[r].bucketId, now)
         e == Enqueue(queues, totalSize, req, r)
     IN /\ buckets' = m.buckets
        /\ globalLimit' = m.globalLimit
        /\ IF m.limited
             THEN /\ queues' = e.queues
                  /\ totalSize' = e.totalSize
                  /\ phase' = [phase EXCEPT ![r] =
                                 IF e.out = "queued" THEN "queued" ELSE "dropped"]
                  /\ link' = [link EXCEPT ![r] =
                                IF e.attached /\ @ = "handle" THEN "lost" ELSE @]
                  /\ echo' = [echo EXCEPT ![r] = IF e.attached THEN FALSE ELSE @]
                  /\ loopPc' = "sleep"
                  /\ UNCHANGED <<path, window, sends>>
             ELSE /\ phase' = [phase EXCEPT ![r] = "flight"]
                  /\ path' = [path EXCEPT ![r] = "drain"]
                  /\ sends' = [sends EXCEPT ![r] = @ + 1]
                  /\ window' = [window EXCEPT ![req[r].bucketId] = Sent(@, now)]
                  /\ loopPc' = LoopAfterDispatch
                  /\ UNCHANGED <<queues, totalSize, link, echo>>
  /\ loopReq' = NoReq
  /\ UNCHANGED <<lcv, now, ret, req, fifo, isShutdown, lastGlobal, ccv,
                 promise, retryCount, calls>>

\* processQueue: the setTimeout it awaits fires
LoopWake ==
  /\ loopPc = "sleep"
  /\ loopPc' = "run"
  /\ UNCHANGED <<lcv, now, ret, pqv, stv, ccv,
                 phase, promise, link, path, retryCount, echo, calls, loopReq, sends>>

\* the substrings shouldRetry looks for that occur in the message of the
\* error executeRequest's catch receives: `HTTP ${status}: ${data.message}`
\* for an answer outside 2xx, the timeout's or the transport's own otherwise
ErrorMessage(resp) ==
  CASE resp = "error" -> {"HTTP 5"}
    [] resp = "fatalTimeout" -> {"timeout"}
    [] OTHER -> {}

\* shouldRetry(error, request) for a request with retryCount rc and
\* maxRetries mr
ShouldRetry(resp, rc, mr) ==
  /\ ~(rc >= mr)
  /\ ErrorMessage(resp) \cap {"timeout", "HTTP 5", "HTTP 429"} # {}

\* executeRequest: the transport answers request r with resp; everything but
\* the store's counters
ExecuteRequest(r, resp) ==
  /\ phase[r] = "flight"
  /\ resp \in Responses \cup TooMany
  /\ LET retry == resp \in TooMany \/ ShouldRetry(resp, retryCount[r], req[r].maxRetries)
         again == retry /\ ~(retryCount[r] + 1 > req[r].maxRetries)
         outcome == IF resp = "ok" THEN "resolved" ELSE "rejected"
     IN /\ retryCount' = [retryCount EXCEPT ![r] = IF retry THEN @ + 1 ELSE @]
        /\ IF again
             THEN /\ phase' = [phase EXCEPT ![r] = "backoff"]
                  /\ UNCHANGED <<promise, calls>>
             ELSE /\ phase' = [phase EXCEPT ![r] = "done"]
                  /\ promise' = FinishPromise(r, outcome)
                  /\ calls' = FinishCalls(r)
  /\ IF resp \in TooMany
       THEN \E T \in RetryAfters :
              /\ now + T <= MaxTime
              /\ LET info == [global |-> resp = "limitedGlobal", bucket |-> req[r].bucketId,
                              limit |-> 0, remaining |-> 0, resetAfter |-> T]
                     h == BMHandleRateLimit(buckets, globalLimit, req[r].bucketId, info, now)
                 IN /\ buckets' = h.buckets
                    /\ globalLimit' = h.globalLimit
                    /\ window' = IF info.global THEN window
                                 ELSE [window EXCEPT ![req[r].bucketId] = NoWindow]
       ELSE UNCHANGED <<buckets, globalLimit, window>>
  /\ UNCHANGED <<processing, atShutdown, now, ret, pqv, isShutdown, lastGlobal, ccv,
                 link, path, echo, loopPc, loopReq, sends>>

\* executeRequest where the store's counters are not followed
MWRespond(r, resp) ==
  /\ ExecuteRequest(r, resp)
  /\ UNCHANGED metrics

\* retryRequest: the delay is over, return this.queue.enqueue(request)
MWRetryFire(r) ==
  /\ phase[r] = "backoff"
  /\ LET e == Enqueue(queues, totalSize, req, r)
     IN /\ queues' = e.queues
        /\ totalSize' = e.totalSize
        /\ IF e.out = "queued"
             THEN /\ phase' = [phase EXCEPT ![r] = "queued"]
                  /\ link' = [link EXCEPT ![r] =
                                IF path[r] = "immediate" THEN "handle"
                                ELSE IF @ = "handle" THEN "lost" ELSE @]
                  /\ echo' = [echo EXCEPT ![r] = path[r] = "drain"]
                  /\ UNCHANGED <<promise, calls>>
             ELSE /\ phase' = [phase EXCEPT ![r] = "done"]
                  /\ promise' = FinishPromise(r, "rejected")
                  /\ calls' = FinishCalls(r)
                  /\ UNCHANGED <<link, echo>>
  /\ UNCHANGED <<lcv, now, ret, req, fifo, stv, ccv, path, retryCount, loopPc, loopReq,
                 sends>>

\* a response carried a global limit: orchestrator.handleRateLimit(info),
\* with a deadline the clock can reach
MWHandleRateLimit(info) ==
  /\ now + info.resetAfter <= MaxTime
  /\ HandleRateLimit(info)
  /\ UNCHANGED <<lcv, now, ret, pqv, mwv, ccv>>

\* BucketManager.cleanup(): the expired buckets are swept
BMCleanup(bs, t) == ClearExpiredBuckets(bs, t)

\* the orchestrator's cleanup interval fires: bucketManager.cleanup(), unless
\* shut down.  The bucket manager is built on the store alone and the
\* priority queue is private to the middleware, so the tick reaches no queue.
CleanupTick ==
  /\ ~isShutdown
  /\ buckets' = BMCleanup(buckets, now)
  /\ UNCHANGED <<lcv, pqv, mwv, ccv, now, ret, globalLimit, isShutdown, lastGlobal, window>>

NextMW ==
  \/ \E r \in Reqs, p \in MWPriorities, b \in MWBuckets : MWExecute(r, p, b)
  \/ LoopDequeue
  \/ LoopCheck
  \/ LoopWake
  \/ \E r \in Reqs, resp \in Responses : MWRespond(r, resp)
  \/ \E r \in Reqs : MWRetryFire(r)
  \/ \E info \in MWInfos : MWHandleRateLimit(info)
  \/ StoreSweep
  \/ CleanupTick
  \/ Tick

SpecMW == InitBM /\ [][NextMW]_vars

\* the middleware under an orchestrator that is shut down at some point
NextSD ==
  \/ \E r \in Reqs, p \in MWPriorities, b \in MWBuckets : MWExecute(r, p, b)
  \/ LoopDequeue
  \/ LoopCheck
  \/ LoopWake
  \/ LoopExit
  \/ \E r \in Reqs, resp \in Responses : MWRespond(r, resp)
  \/ \E r \in Reqs : MWRetryFire(r)
  \/ OrchShutdown
  \/ Tick

SpecSD == InitBM /\ [][NextSD]_vars

\* the drain loop keeps running, timers fire, the transport answers, time passes
FairSpecMW ==
  /\ SpecMW
  /\ WF_vars(LoopDequeue)
  /\ WF_vars(LoopCheck)
  /\ WF_vars(LoopWake)
  /\ \A r \in Reqs : WF_vars(\E resp \in Responses : MWRespond(r, resp))
  /\ \A r \in Reqs : WF_vars(MWRetryFire(r))
  /\ WF_vars(Tick)

\* ------------------------------------------------- claims on SpecMW
\* C3: under fair scheduling of the drain loop, the timers and the transport,
\* every promise handed to a caller is eventually resolved or rejected
C3_EventuallySettled ==
  \A r \in Reqs : (promise[r] = "pending") ~> (promise[r] \in {"resolved", "rejected"})

\* C4: the handle in request.resolve / request.reject stays the one of the
\* promise the caller holds, and finishing a request calls it once
C4_SettledOnce ==
  \A r \in Reqs : link[r] # "lost" /\ calls[r] <= 1

\* C5: the httpClient calls started within one window of a bucket, by execute
\* and by the drain loop together, never exceed the bucket's limit
C5_WithinLimit ==
  \A b \in Buckets : window[b].sent <= DefaultLimit

\* C13: a cleanup tick or a turn of the drain loop that finds a request which
\* has waited in the priority queue for longer than its timeout ends that
\* request: it is rejected and is no longer in the queue
C13_ExpiredEvicted ==
  [][(CleanupTick \/ LoopCheck) =>
       \A r \in Reqs :
         (phase[r] \in {"queued", "held"} /\ now - req[r].timestamp > RequestTimeout) =>
           (phase'[r] = "done" /\ promise'[r] = "rejected" /\ r \notin InQueue(queues'))]_vars

\* ------------------------------------------ requests attached to buckets
\* a caller calls bucketManager.queueRequest(b, request) with a new request r
\* whose resolve / reject are those of the promise it holds
BMQueue(b, r) ==
  /\ phase[r] = "new"
  /\ \A o \in Reqs : o < r => phase[o] # "new"
  /\ LET q == BMQueueRequest(buckets, b, r, now)
     IN /\ buckets' = q.buckets
        /\ window' = [window EXCEPT ![b] = Account(@, buckets[b], now, q.created, FALSE)]
  /\ req' = [req EXCEPT ![r] = [priority |-> NORMAL, timestamp |-> now, bucketId |-> b,
                                 maxRetries |-> MaxRetries, timeout |-> RequestTimeout]]
  /\ phase' = [phase EXCEPT ![r] = "attached"]
  /\ promise' = [promise EXCEPT ![r] = "pending"]
  /\ link' = [link EXCEPT ![r] = "handle"]
  /\ ret' = Returned("queueRequest", b, r)
  /\ UNCHANGED <<lcv, ccv, now, queues, totalSize, fifo, globalLimit, isShutdown,
                 lastGlobal, path, retryCount, echo, calls, loopPc, loopReq, sends>>

\* a caller calls bucketManager.deleteBucket(b)
BMDelete(b) ==
  /\ LET d == BMDeleteBucket(buckets, b, now)
     IN /\ buckets' = d.buckets
        /\ promise' = RejectQueued(d.rejected)
        /\ phase' = [r \in Reqs |-> IF r \in d.rejected THEN "done" ELSE phase[r]]
        /\ calls' = [r \in Reqs |-> IF r \in d.rejected THEN calls[r] + 1 ELSE calls[r]]
        /\ ret' = Returned("deleteBucket", b, d.rejected)
  /\ window' = [window EXCEPT ![b] = NoWindow]
  /\ UNCHANGED <<lcv, ccv, now, pqv, globalLimit, isShutdown, lastGlobal,
                 link, path, retryCount, echo, loopPc, loopReq, sends>>

\* a caller calls orchestrator.clearAll(): clearQueue(), deleteBucket for
\* every bucket getAllBuckets() returns, resetMetrics()
OrchClearAll ==
  /\ LET c == Clear(queues, totalSize)
         a == StoreGetAllBuckets(buckets, now)
         rejected == c.rejected \cup UNION {a.buckets[b].requests : b \in a.active}
     IN /\ queues' = c.queues
        /\ totalSize' = c.totalSize
        /\ buckets' = [b \in Buckets |-> NoBucket]
        /\ promise' = RejectQueued(rejected)
        /\ phase' = [r \in Reqs |-> IF r \in rejected THEN "done" ELSE phase[r]]
        /\ calls' = [r \in Reqs |-> IF r \in rejected THEN calls[r] + 1 ELSE calls[r]]
        /\ metrics' = ResetMetrics([b \in Buckets |-> NoBucket], now)
        /\ ret' = Returned("clearAll", "", rejected)
  /\ window' = [b \in Buckets |-> NoWindow]
  /\ UNCHANGED <<ccv, now, req, fifo, globalLimit, isShutdown, lastGlobal, processing,
                 atShutdown, link, path, retryCount, echo, loopPc, loopReq, sends>>

NextBQ ==
  \/ \E b \in Buckets, r \in Reqs : BMQueue(b, r)
  \/ \E b \in Buckets : BMDelete(b)
  \/ \E b \in Buckets : BMGet(b)
  \/ OrchClearAll
  \/ StoreSweep
  \/ Tick

SpecBQ == InitBM /\ [][NextBQ]_vars

\* ------------------------------------------------- claims on SpecBQ
\* C14: deleteBucket(b) rejects every request that queueRequest attached to b
\* and that is not settled, and a getBucket(b) made after it returns a fresh
\* bucket: remaining equal to limit, no request attached
C14_DeleteRejects ==
  [][\A b \in Buckets :
       BMDelete(b) =>
         /\ \A r \in Reqs :
              (phase[r] = "attached" /\ req[r].bucketId = b /\ promise[r] = "pending")
                => promise'[r] = "rejected"
         /\ LET g == BMGetBucket(buckets', b, now)
            IN g.bucket.remaining = g.bucket.limit /\ g.bucket.requests = {}]_vars

\* ------------------------------------- MemoryRateLimitStore and its state
\* the buckets a client of the store writes
StBuckets ==
  {[limit |-> 1, remaining |-> 1, resetAt |-> t, requests |-> {}] : t \in Times \ {0}}
\* the counters a client increments
MetricNames == {"totalRequests", "globalRateLimits"}

\* the metrics after setBucket / deleteBucket / getAllBuckets /
\* clearExpiredBuckets left the map bs: bucketCount = this.buckets.size
CountBuckets(m, bs) == [m EXCEPT !.bucketCount = Cardinality(Stored(bs))]

\* incrementMetric(metric)
IncrementMetric(m, name) == [m EXCEPT ![name] = @ + 1]

\* exportState(): copies of the buckets, the global limit and the metrics
ExportState(bs, gl, m) == [buckets |-> bs, globalLimit |-> gl, metrics |-> m]

\* importState(state): what the store holds afterwards
ImportState(state) ==
  [buckets |-> state.buckets, globalLimit |-> state.globalLimit,
   metrics |-> CountBuckets(state.metrics, state.buckets)]

\* the states a client imports from persistence
ImportStates ==
  {ExportState([b \in Buckets |-> NoBucket], NoLimit,
               ResetMetrics([b \in Buckets |-> NoBucket], 0)),
   ExportState([b \in Buckets |-> IF b = "b1"
                                    THEN [limit |-> 1, remaining |-> 0, resetAt |-> MaxTime,
                                          requests |-> {}]
                                    ELSE NoBucket],
               [resetAfter |-> MaxTime],
               [ResetMetrics([b \in Buckets |-> NoBucket], 0)
                  EXCEPT !.totalRequests = 1, !.bucketCount = 1])}

\* importState's guard dropped
ImportRefusedNever(sd) == FALSE

\* orchestrator.importState: if (this.isShutdown) throw
ImportRefused(sd) == sd

\* a client calls store.setBucket(b, bucket)
STSetBucket(b, bucket) ==
  /\ buckets' = StoreSetBucket(buckets, b, bucket)
  /\ metrics' = CountBuckets(metrics, buckets')
  /\ ret' = Returned("setBucket", b, FALSE)
  /\ UNCHANGED <<pqv, mwv, ccv, now, globalLimit, isShutdown, lastGlobal, window,
                 processing, atShutdown>>

\* a client calls store.getBucket(b)
STGetBucket(b) ==
  /\ buckets' = StoreGetBucket(buckets, b, now).buckets
  /\ ret' = Returned("getBucket", b, StoreGetBucket(buckets, b, now).bucket)
  /\ UNCHANGED <<lcv, pqv, mwv, ccv, now, globalLimit, isShutdown, lastGlobal, window>>

\* a client calls store.deleteBucket(b)
STDeleteBucket(b) ==
  /\ buckets' = StoreDeleteBucket(buckets, b)
  /\ metrics' = CountBuckets(metrics, buckets')
  /\ ret' = Returned("deleteBucket", b, FALSE)
  /\ UNCHANGED <<pqv, mwv, ccv, now, globalLimit, isShutdown, lastGlobal, window,
                 processing, atShutdown>>

\* a client calls store.getAllBuckets()
STGetAllBuckets ==
  /\ buckets' = StoreGetAllBuckets(buckets, now).buckets
  /\ metrics' = CountBuckets(metrics, buckets')
  /\ ret' = Returned("getAllBuckets", "", StoreGetAllBuckets(buckets, now).active)
  /\ UNCHANGED <<pqv, mwv, ccv, now, globalLimit, isShutdown, lastGlobal, window,
                 processing, atShutdown>>

\* the store's cleanup interval fires, or a client calls clearExpiredBuckets()
STSweep ==
  /\ buckets' = ClearExpiredBuckets(buckets, now)
  /\ metrics' = CountBuckets(metrics, buckets')
  /\ ret' = Returned("clearExpiredBuckets", "", FALSE)
  /\ UNCHANGED <<pqv, mwv, ccv, now, globalLimit, isShutdown, lastGlobal, window,
                 processing, atShutdown>>

\* a client calls store.setGlobalLimit(info), the counter followed up to MaxCount
STSetGlobalLimit(info) ==
  /\ metrics.globalRateLimits < MaxCount
  /\ globalLimit' = StoreSetGlobalLimit(info, now)
  /\ metrics' = IncrementMetric(metrics, "globalRateLimits")
  /\ ret' = Returned("setGlobalLimit", "", FALSE)
  /\ UNCHANGED <<pqv, mwv, ccv, now, buckets, isShutdown, lastGlobal, window,
                 processing, atShutdown>>

\* a client calls store.getGlobalLimit()
STGetGlobalLimit ==
  /\ globalLimit' = StoreGetGlobalLimit(globalLimit, now).globalLimit
  /\ ret' = Returned("getGlobalLimit", "", StoreGetGlobalLimit(globalLimit, now).limit)
  /\ UNCHANGED <<lcv, pqv, mwv, ccv, now, buckets, isShutdown, lastGlobal, window>>

\* a client calls store.incrementMetric(name), followed up to MaxCount
STIncrementMetric(name) ==
  /\ metrics[name] < MaxCount
  /\ metrics' = IncrementMetric(metrics, name)
  /\ ret' = Returned("incrementMetric", "", FALSE)
  /\ UNCHANGED <<pqv, mwv, stv, ccv, now, processing, atShutdown>>

\* a client calls store.resetMetrics()
STResetMetrics ==
  /\ metrics' = ResetMetrics(buckets, now)
  /\ ret' = Returned("resetMetrics", "", FALSE)
  /\ UNCHANGED <<pqv, mwv, stv, ccv, now, processing, atShutdown>>

\* a client calls orchestrator.importState(state)
OrchImportState(state) ==
  /\ IF ImportRefused(isShutdown)
       THEN /\ ret' = Returned("importState", "", "error")
            /\ UNCHANGED <<buckets, globalLimit, metrics, window>>
       ELSE /\ buckets' = ImportState(state).buckets
            /\ globalLimit' = ImportState(state).globalLimit
            /\ metrics' = ImportState(state).metrics
            /\ window' = [b \in Buckets |-> NoWindow]
            /\ ret' = Returned("importState", "", "ok")
  /\ UNCHANGED <<pqv, mwv, ccv, now, isShutdown, lastGlobal, processing, atShutdown>>

\* a client calls importState(exportState()) on a running orchestrator
OrchRoundTrip ==
  /\ ~isShutdown
  /\ LET state == ExportState(buckets, globalLimit, metrics)
     IN /\ buckets' = ImportState(state).buckets
        /\ globalLimit' = ImportState(state).globalLimit
        /\ metrics' = ImportState(state).metrics
  /\ ret' = Returned("roundTrip", "", "ok")
  /\ UNCHANGED <<pqv, mwv, ccv, now, isShutdown, lastGlobal, window, processing, atShutdown>>

\* bucketManager.getAllBucketStats(): the buckets are listed through the
\* store's getAllBuckets(), the only listing the store interface offers
BMGetAllBucketStats(bs, t) ==
  LET a == StoreGetAllBuckets(bs, t)
  IN [buckets |-> a.buckets, totalBuckets |-> Cardinality(a.active)]

\* a client calls orchestrator.getMetrics(): a copy of the store's metrics,
\* with the queue's total and the bucket manager's bucket count
OrchGetMetrics ==
  LET copy == metrics
      stats == BMGetAllBucketStats(buckets, now)
  IN /\ buckets' = stats.buckets
     /\ metrics' = CountBuckets(metrics, stats.buckets)
     /\ ret' = Returned("getMetrics", "",
                        [copy EXCEPT !.queueSize = totalSize,
                                     !.bucketCount = stats.totalBuckets])
     /\ UNCHANGED <<pqv, mwv, ccv, now, globalLimit, isShutdown, lastGlobal, window,
                    processing, atShutdown>>

NextST ==
  \/ \E b \in Buckets, bucket \in StBuckets : STSetBucket(b, bucket)
  \/ \E b \in Buckets : STGetBucket(b)
  \/ \E b \in Buckets : STDeleteBucket(b)
  \/ STGetAllBuckets
  \/ STSweep
  \/ \E info \in MWInfos : STSetGlobalLimit(info)
  \/ STGetGlobalLimit
  \/ \E name \in MetricNames : STIncrementMetric(name)
  \/ STResetMetrics
  \/ \E state \in ImportStates : OrchImportState(state)
  \/ OrchRoundTrip
  \/ OrchGetMetrics
  \/ OrchShutdown
  \/ Tick

SpecST == InitBM /\ [][NextST]_vars

\* ------------------------------------------------- claims on SpecST
\* C15: importState(exportState()) leaves the store with the same bucket map,
\* the same global limit with the same deadline and the same metrics
C15_RoundTrip ==
  [][OrchRoundTrip => UNCHANGED <<buckets, globalLimit, metrics>>]_vars

\* C16: after shutdown(), importState fails with an error and leaves the
\* store's buckets, global limit and metrics as they were
C16_ImportAfterShutdown ==
  [][(isShutdown /\ \E state \in ImportStates : OrchImportState(state)) =>
       (ret'.val = "error" /\ UNCHANGED <<buckets, globalLimit, metrics>>)]_vars

\* an importState call has been refused after shutdown
C16_Witness ==
  isShutdown /\ ret = Returned("importState", "", "error")

\* ------------------------------------------------- claims on SpecSD
\* C11: once shutdown() has run, no request that was in the priority queue or
\* held by the drain loop for its admission check when it was called has a
\* pending promise or is in the queue
C11_ShutdownDrains ==
  isShutdown =>
    \A r \in atShutdown : promise[r] # "pending" /\ r \notin InQueue(queues)

\* --------------------------------------------- the orchestrator's lifecycle
\* what the transport answers when no request is retried: 2xx or a plain 4xx
FinalResponses == {"ok", "fatal"}

\* enqueue, the drain loop and shutdown, with a transport whose first answer
\* ends the request
NextLC ==
  \/ \E r \in Reqs, p \in MWPriorities, b \in MWBuckets : MWExecute(r, p, b)
  \/ LoopDequeue
  \/ LoopCheck
  \/ LoopWake
  \/ LoopExit
  \/ \E r \in Reqs, resp \in FinalResponses : MWRespond(r, resp)
  \/ OrchShutdown
  \/ Tick

SpecLC == InitBM /\ [][NextLC]_vars

\* ------------------------------------------------- claims on SpecLC
\* C12: an enqueue call made after shutdown() is rejected at once: the request
\* object is not modified, it is not placed in the queue, the transport is
\* not called for it, and the queue and the store stay as they were
C12_EnqueueAfterShutdown ==
  [][\A r \in Reqs :
       (isShutdown /\ phase[r] = "new" /\ phase'[r] # "new") =>
         /\ promise'[r] = "rejected"
         /\ req'[r] = req[r]
         /\ r \notin InQueue(queues')
         /\ sends'[r] = sends[r]
         /\ UNCHANGED <<queues, totalSize, buckets, globalLimit, metrics>>]_vars

\* an enqueue call has been refused after shutdown
C12_Witness ==
  \E r \in Reqs :
    isShutdown /\ phase[r] = "refused" /\ promise[r] = "rejected" /\ sends[r] = 0

\* C17: a shutdown() call made after the first returns normally and changes
\* nothing: queue, requests, drain loop, store, metrics and flags stay as the
\* first call left them
C17_ShutdownIdempotent ==
  [][(isShutdown /\ OrchShutdown) =>
       (ret'.op = "shutdown" /\ UNCHANGED <<pqv, mwv, stv, ccv, lcv, now>>)]_vars

\* shutdown() has been called again after time passed and the drain loop left
C17_Witness ==
  /\ isShutdown
  /\ ret = Returned("shutdown", "", TRUE)
  /\ metrics.lastReset < now
  /\ loopPc = "exit"

\* ------------------------------------------ claims on retries (SpecMW)
\* the retryable outcomes of a transport call: 429, and 5xx / timeout /
\* connection reset
RetryableResponses == TooMany \cup {"error"}

\* C18: the transport is called at most maxRetries + 1 times for a request,
\* and when a transport call ends in a retryable failure with the retry
\* budget used up, the caller's promise is rejected and the request is not
\* put back into the queue
C18_RetryBudget ==
  [][/\ \A r \in Reqs : sends'[r] <= MaxRetries + 1
     /\ \A r \in Reqs :
          (/\ \E resp \in RetryableResponses : MWRespond(r, resp)
           /\ retryCount[r] >= MaxRetries)
            => /\ promise'[r] = "rejected"
               /\ phase'[r] = "done"
               /\ r \notin InQueue(queues')]_vars

\* the 4xx answers other than 429
ClientErrors == {"fatal", "fatalTimeout"}

\* C19: when the transport answers a request with a 4xx other than 429, its
\* promise is rejected, its retryCount is unchanged, and the request is
\* finished: it is neither sent again nor placed in the queue
C19_ClientErrorFails ==
  [][\A r \in Reqs :
       (\E resp \in ClientErrors : MWRespond(r, resp)) =>
         /\ promise'[r] = "rejected"
         /\ retryCount'[r] = retryCount[r]
         /\ phase'[r] = "done"
         /\ r \notin InQueue(queues')]_vars

\* ------------------------------------------------------ answers of 429
\* what the transport answers where rate limits are followed: 2xx or a 429
LimitResponses == {"ok"} \cup TooMany

\* the priority values of the requests: a tier, and a value outside the enum
LimitPriorities == {NORMAL, BULK + 1}

\* the middleware with a transport that answers 2xx or 429
NextRL ==
  \/ \E r \in Reqs, p \in LimitPriorities, b \in MWBuckets : MWExecute(r, p, b)
  \/ LoopDequeue
  \/ LoopCheck
  \/ LoopWake
  \/ \E r \in Reqs, resp \in LimitResponses : MWRespond(r, resp)
  \/ \E r \in Reqs : MWRetryFire(r)
  \/ Tick

SpecRL == InitBM /\ [][NextRL]_vars

\* ------------------------------------------------- claims on SpecRL
\* the priority queue refuses request r: it is full, or r's priority is no tier
QueueRefuses(r) == totalSize >= maxSize \/ req[r].priority \notin Tiers

\* the 429 just answered is in force for r's bucket
NowLimited(r) ==
  MWIsRateLimited(buckets', globalLimit', req[r].bucketId, now).limited

Headers ==
  {[bucket |-> h, limit |-> 1, remaining |-> rem, resetAfter |-> 1] :
     h \in {"", "b1", "b2"}, rem \in {0, 1}}

\* extractRateLimitInfo / extractRateLimitFromHeaders of headers hdr
HeaderInfo(hdr) ==
  [global |-> FALSE, bucket |-> hdr.bucket, limit |-> hdr.limit,
   remaining |-> hdr.remaining, resetAfter |-> hdr.resetAfter]

\* the store after the header updates of one answer: wrapHttpClient calls
\* orchestrator.handleRateLimit(info) when the headers name a bucket, then
\* executeRequest calls updateBucket(rateLimitInfo.bucket, info)
HeaderUpdate(bs, gl, sd, hdr, t) ==
  LET info == HeaderInfo(hdr)
      w == IF sd \/ info.bucket = ""
             THEN [buckets |-> bs, globalLimit |-> gl]
             ELSE BMHandleRateLimit(bs, gl, info.bucket, info, t)
  IN IF info.bucket = ""
       THEN w
       ELSE BMHandleRateLimit(w.buckets, w.globalLimit, info.bucket, info, t)

\* executeRequest: the transport answers request r with a 2xx that carries
\* the rate-limit headers hdr
MWRespondOk(r, hdr) ==
  /\ phase[r] = "flight"
  /\ hdr \in Headers
  /\ now + hdr.resetAfter <= MaxTime
  /\ LET u == HeaderUpdate(buckets, globalLimit, isShutdown, hdr, now)
     IN /\ buckets' = u.buckets
        /\ globalLimit' = u.globalLimit
        /\ window' = IF hdr.bucket = "" THEN window
                     ELSE [window EXCEPT ![hdr.bucket] = NoWindow]
  /\ phase' = [phase EXCEPT ![r] = "done"]
  /\ promise' = FinishPromise(r, "resolved")
  /\ calls' = FinishCalls(r)
  /\ UNCHANGED <<lcv, now, ret, pqv, isShutdown, lastGlobal, ccv,
                 link, path, retryCount, echo, loopPc, loopReq, sends>>

\* the middleware with a transport whose answers carry rate-limit headers
NextHD ==
  \/ \E r \in Reqs, p \in MWPriorities, b \in MWBuckets : MWExecute(r, p, b)
  \/ LoopDequeue
  \/ LoopCheck
  \/ LoopWake
  \/ \E r \in Reqs, hdr \in Headers : MWRespondOk(r, hdr)
  \/ Tick

SpecHD == InitBM /\ [][NextHD]_vars

\* ------------------------------------------------- claims on SpecHD
\* C21: after an answer to a request admitted under bucket b carried the
\* headers limit, remaining and reset-after, the bucket consulted for b holds
\* the server's numbers, and b is rate limited when they report remaining 0
\* and a positive reset-after
C21_ServerOverrides ==
  [][\A r \in Reqs, hdr \in Headers :
       MWRespondOk(r, hdr) =>
         LET b == req[r].bucketId
         IN /\ buckets'[b].limit = hdr.limit
            /\ buckets'[b].remaining = hdr.remaining
            /\ buckets'[b].resetAt = now + hdr.resetAfter
            /\ (hdr.remaining = 0 /\ hdr.resetAfter > 0) =>
                  MWIsRateLimited(buckets', globalLimit', b, now).limited]_vars

\* --------------------------------------------- defaults of a request
\* the fields callers put on a request: priority left out, CRITICAL or HIGH;
\* maxRetries left out, 0 or MaxRetries; timeout left out or supplied
SuppliedFields ==
  {[priority |-> p, maxRetries |-> mr, timeout |-> tm] :
     p \in {Undefined, CRITICAL, HIGH},
     mr \in {Undefined, 0, MaxRetries},
     tm \in {Undefined, RequestTimeout}}

\* enqueue of requests with any of these fields, the drain loop, a transport
\* whose first answer ends the request
NextDF ==
  \/ \E r \in Reqs, f \in SuppliedFields, b \in MWBuckets : OrchEnqueue(r, f, b)
  \/ LoopDequeue
  \/ LoopCheck
  \/ LoopWake
  \/ \E r \in Reqs, resp \in FinalResponses : MWRespond(r, resp)
  \/ Tick

SpecDF == InitBM /\ [][NextDF]_vars

\* ------------------------------------------------- claims on SpecDF
\* C23: orchestrator.enqueue leaves every field the caller supplied as it
\* was: a priority that is one of the five tiers, a maxRetries >= 0 and a
\* timeout are the same on the request after the call, CRITICAL (0) and
\* maxRetries 0 included
C23_SuppliedKept ==
  [][\A r \in Reqs, f \in SuppliedFields, b \in MWBuckets :
       (OrchEnqueue(r, f, b) /\ ~isShutdown) =>
         /\ f.priority \in Tiers => req'[r].priority = f.priority
         /\ f.maxRetries # Undefined => req'[r].maxRetries = f.maxRetries
         /\ f.timeout # Undefined => req'[r].timeout = f.timeout]_vars

\* ------------------------------------------------------------ admission
\* enqueue of requests with a valid or an out-of-range priority while global
\* limits come and go, the drain loop, a transport whose first answer ends
\* the request
NextAD ==
  \/ \E r \in Reqs, p \in LimitPriorities, b \in MWBuckets : MWExecute(r, p, b)
  \/ LoopDequeue
  \/ LoopCheck
  \/ LoopWake
  \/ \E r \in Reqs, resp \in FinalResponses : MWRespond(r, resp)
  \/ \E info \in MWInfos : MWHandleRateLimit(info)
  \/ Tick

SpecAD == InitBM /\ [][NextAD]_vars

\* ------------------------------------------------- claims on SpecAD
\* the global limit is in force
GlobalActive == globalLimit # NoLimit /\ now < globalLimit.resetAfter

\* bucket b is exhausted and its window has not ended
BucketActive(b) ==
  buckets[b] # NoBucket /\ buckets[b].resetAt > now /\ buckets[b].remaining <= 0

\* the tokens bucket b offers to a consumeRequest: those of the bucket the
\* store still returns, the default limit when it returns none
TokensOf(b) ==
  IF buckets[b] # NoBucket /\ ~(now > buckets[b].resetAt)
    THEN buckets[b].remaining ELSE DefaultLimit

\* request r is submitted to a running orchestrator in this step
Admitted(r) == ~isShutdown /\ phase[r] = "new" /\ phase'[r] # "new"

\* C22 as stated: execute sends a request at once only if neither the global
\* nor its bucket's limit was in force and consumeRequest took a token; in
\* every other case the request is in the priority queue afterwards and the
\* caller's promise is pending
C22_Original ==
  [][\A r \in Reqs :
       Admitted(r) =>
         LET b == req'[r].bucketId
         IN IF sends'[r] = 1
              THEN /\ ~GlobalActive /\ ~BucketActive(b)
                   /\ TokensOf(b) > 0
                   /\ buckets'[b].remaining = TokensOf(b) - 1
              ELSE r \in InQueue(queues') /\ promise'[r] = "pending"]_vars

\* C22, amended: execute sends a request at once only if neither the global
\* nor its bucket's limit was in force and consumeRequest took a token; in
\* every other case the request is handed to the priority queue: it is in
\* the queue afterwards and the caller's promise is pending, unless the
\* queue is full or the request's priority is no tier, and then the promise
\* is rejected and the request is not queued
C22_ImmediateOrQueued ==
  [][\A r \in Reqs :
       Admitted(r) =>
         LET b == req'[r].bucketId
             refused == totalSize >= maxSize \/ req'[r].priority \notin Tiers
         IN IF sends'[r] = 1
              THEN /\ ~GlobalActive /\ ~BucketActive(b)
                   /\ TokensOf(b) > 0
                   /\ buckets'[b].remaining = TokensOf(b) - 1
              ELSE IF refused
                THEN r \notin InQueue(queues') /\ promise'[r] = "rejected"
                ELSE r \in InQueue(queues') /\ promise'[r] = "pending"]_vars

\* a request was queued because the global limit was in force, another
\* because its bucket was exhausted, and a third was sent at once
C22_Witness ==
  \E r1, r2 \in Reqs :
    /\ r1 # r2
    /\ sends[r1] = 1 /\ path[r1] = "immediate"
    /\ phase[r2] = "queued" /\ promise[r2] = "pending" /\ sends[r2] = 0
    /\ ~GlobalActive /\ BucketActive(req[r2].bucketId)

\* C24: orchestrator.enqueue rejects at admission only when it is shut down,
\* the queue is full or the priority is no tier; a request submitted while
\* the global limit or its bucket's limit is in force is otherwise queued
\* with a pending promise, and the promise of a request waiting in the queue
\* or held by the drain loop stays pending
C24_QueuedNotRejected ==
  [][\A r \in Reqs :
       /\ (phase[r] = "new" /\ phase'[r] # "new") =>
            LET b == req'[r].bucketId
                refused == \/ isShutdown
                           \/ totalSize >= maxSize
                           \/ req'[r].priority \notin Tiers
            IN /\ promise'[r] = "rejected" => refused
               /\ (~refused /\ (GlobalActive \/ BucketActive(b))) =>
                    (r \in InQueue(queues') /\ promise'[r] = "pending" /\ sends'[r] = 0)
       /\ (phase[r] \in {"queued", "held"} /\ promise[r] = "pending"
             /\ phase'[r] \in {"queued", "held"}) => promise'[r] = "pending"]_vars

\* a request submitted under the global limit has waited in the queue with a
\* pending promise until the limit ended, and has then been sent by the loop
C24_Witness ==
  \E r \in Reqs :
    /\ phase[r] = "flight" /\ path[r] = "drain"
    /\ promise[r] = "pending"
    /\ req[r].timestamp < now
    /\ globalLimit # NoLimit

\* --------------------------------------------------- RedisRateLimitStore
\* getBucket(bucketId) of the Redis store at time t; down: the Redis client
\* throws, the catch logs and returns null
RedisGetBucket(bs, b, t, down) ==
  IF down THEN [buckets |-> bs, bucket |-> NoBucket] ELSE StoreGetBucket(bs, b, t)

\* setBucket(bucketId, bucket) of the Redis store: a failed write is logged
RedisSetBucket(bs, b, bucket, down) ==
  IF down THEN bs ELSE StoreSetBucket(bs, b, bucket)

\* getGlobalLimit() of the Redis store at time t
RedisGetGlobalLimit(gl, t, down) ==
  IF down THEN [globalLimit |-> gl, limit |-> NoLimit] ELSE StoreGetGlobalLimit(gl, t)

\* middleware.isRateLimited(bucketId) over the Redis store: the global limit,
\* then bucketManager.isRateLimited
RedisIsRateLimited(bs, gl, b, t, down) ==
  LET l == RedisGetGlobalLimit(gl, t, down)
      g == RedisGetBucket(bs, b, t, down)
  IN IF l.limit # NoLimit /\ t < l.limit.resetAfter
       THEN [buckets |-> bs, globalLimit |-> l.globalLimit, limited |-> TRUE]
       ELSE [buckets |-> g.buckets, globalLimit |-> l.globalLimit,
             limited |-> g.bucket # NoBucket /\ g.bucket.remaining <= 0
                           /\ g.bucket.resetAt > t]

\* bucketManager.consumeRequest(bucketId) over the Redis store
RedisConsumeRequest(bs, b, t, down) ==
  LET g == RedisGetBucket(bs, b, t, down)
      bucket == IF g.bucket # NoBucket THEN g.bucket ELSE NewBucket(t)
      made == IF g.bucket # NoBucket THEN g.buckets
              ELSE RedisSetBucket(g.buckets, b, bucket, down)
  IN IF NoTokens(bucket)
       THEN [buckets |-> made, ok |-> FALSE]
       ELSE [buckets |-> RedisSetBucket(made, b, Decrement(bucket), down), ok |-> TRUE]

\* middleware.execute(request) for a new request r of bucket b over the Redis
\* store, whose backend is unavailable during the call (down) or not
RedisExecute(r, b, down) ==
  /\ phase[r] = "new"
  /\ \A o \in Reqs : o < r => phase[o] # "new"
  /\ now + DefaultResetAfter <= MaxTime
  /\ LET rq == [req EXCEPT ![r] = [priority |-> NORMAL, timestamp |-> now,
                                   bucketId |-> b, maxRetries |-> MaxRetries,
                                   timeout |-> RequestTimeout]]
         m == RedisIsRateLimited(buckets, globalLimit, b, now, down)
         c == RedisConsumeRequest(m.buckets, b, now, down)
         e == Enqueue(queues, totalSize, rq, r)
     IN /\ req' = rq
        /\ globalLimit' = m.globalLimit
        /\ IF m.limited \/ ~c.ok
             THEN /\ buckets' = IF m.limited THEN m.buckets ELSE c.buckets
                  /\ queues' = e.queues
                  /\ totalSize' = e.totalSize
                  /\ phase' = [phase EXCEPT ![r] =
                                 IF e.out = "queued" THEN "queued" ELSE "done"]
                  /\ promise' = [promise EXCEPT ![r] =
                                   IF e.out = "queued" THEN "pending" ELSE "rejected"]
                  /\ link' = [link EXCEPT ![r] =
                                IF e.out = "queued" THEN "handle" ELSE "none"]
                  /\ UNCHANGED <<path, sends>>
             ELSE /\ buckets' = c.buckets
                  /\ phase' = [phase EXCEPT ![r] = "flight"]
                  /\ promise' = [promise EXCEPT ![r] = "pending"]
                  /\ link' = [link EXCEPT ![r] = "exec"]
                  /\ path' = [path EXCEPT ![r] = "immediate"]
                  /\ sends' = [sends EXCEPT ![r] = @ + 1]
                  /\ UNCHANGED <<queues, totalSize>>
  /\ UNCHANGED <<lcv, now, ret, fifo, isShutdown, lastGlobal, window, ccv,
                 retryCount, echo, calls, loopPc, loopReq>>

\* a caller asks middleware.isRateLimited(b) over the Redis store
RedisAsk(b, down) ==
  LET m == RedisIsRateLimited(buckets, globalLimit, b, now, down)
  IN /\ buckets' = m.buckets
     /\ globalLimit' = m.globalLimit
     /\ ret' = Returned("isRateLimited", b, m.limited)
     /\ UNCHANGED <<lcv, pqv, mwv, ccv, now, isShutdown, lastGlobal, window>>

\* admission over a Redis store whose backend comes and goes
NextRD ==
  \/ \E r \in Reqs, b \in MWBuckets, down \in BOOLEAN : RedisExecute(r, b, down)
  \/ \E b \in MWBuckets, down \in BOOLEAN : RedisAsk(b, down)
  \/ \E info \in MWInfos : MWHandleRateLimit(info)
  \/ \E r \in Reqs, resp \in FinalResponses : MWRespond(r, resp)
  \/ Tick

SpecRD == InitBM /\ [][NextRD]_vars

\* ------------------------------------------------- claims on SpecRD
\* C25: when the store's reads fail during a call, isRateLimited does not
\* answer "not limited", and execute does not send the request but hands it
\* to the queue
C25_FailClosed ==
  [][/\ \A b \in MWBuckets : RedisAsk(b, TRUE) => ret'.val = TRUE
     /\ \A r \in Reqs, b \in MWBuckets :
          RedisExecute(r, b, TRUE) =>
            (sends'[r] = 0 /\ phase'[r] # "flight"
               /\ (r \in InQueue(queues') \/ totalSize >= maxSize))]_vars

\* ------------------------------------------ claims on SpecST, continued
\* C26: a call of orchestrator.getMetrics() changes no bucket, no global
\* limit, no counter and no queue entry
C26_GetMetricsPure ==
  [][OrchGetMetrics => UNCHANGED <<buckets, globalLimit, metrics, queues, totalSize>>]_vars

\* ------------------------------------------------ the bucket invariant
\* resetBucket(bucketId): the bucket is deleted, the next read creates it
\* afresh
BMResetBucket(bs, b) == StoreDeleteBucket(bs, b)

\* a caller calls orchestrator.resetBucket(b)
OrchResetBucket(b) ==
  /\ buckets' = BMResetBucket(buckets, b)
  /\ window' = [window EXCEPT ![b] = NoWindow]
  /\ ret' = Returned("resetBucket", b, FALSE)
  /\ UNCHANGED <<lcv, pqv, mwv, ccv, now, globalLimit, isShutdown, lastGlobal>>

\* what extractRateLimitInfo makes of a response: each of x-ratelimit-limit
\* and x-ratelimit-remaining is either present with the value 1 or absent and
\* parsed as 0
ParsedInfos ==
  {[global |-> FALSE, bucket |-> b, limit |-> l, remaining |-> r, resetAfter |-> 1] :
     b \in Buckets, l \in {0, 1}, r \in {0, 1}}

NextIV ==
  \/ \E b \in Buckets : BMGet(b)
  \/ \E b \in Buckets : BMConsume(b)
  \/ \E info \in ParsedInfos \cup MWInfos : OrchHandleRateLimit(info)
  \/ \E b \in Buckets : OrchResetBucket(b)
  \/ \E state \in ImportStates : OrchImportState(state)
  \/ Tick

SpecIV == InitBM /\ [][NextIV]_vars

\* C27: every bucket held in the store has 0 <= remaining <= limit
C27_RemainingInRange ==
  \A b \in Buckets :
    buckets[b] # NoBucket =>
      (0 <= buckets[b].remaining /\ buckets[b].remaining <= buckets[b].limit)

\* ------------------------------------------------------- removeExpired
\* the age test with the timeout itself counted as expired
IsExpiredAtTimeout(rq, r, t, timeoutMs) == t - rq[r].timestamp >= timeoutMs

\* now - request.timestamp > timeoutMs
IsExpired(rq, r, t, timeoutMs) == t - rq[r].timestamp > timeoutMs

\* queue.splice(i, 1)
SpliceAt(queue, i) == SubSeq(queue, 1, i - 1) \o SubSeq(queue, i + 1, Len(queue))

RECURSIVE SpliceExpired(_, _, _, _, _)
\* the inner loop of removeExpired on one tier's array, from index i down to
\* the first: the array left, and the requests reject was called on, in call
\* order
SpliceExpired(queue, i, rq, t, timeoutMs) ==
  IF i < 1 THEN [queue |-> queue, rejected |-> <<>>]
  ELSE IF IsExpired(rq, queue[i], t, timeoutMs)
    THEN LET rest == SpliceExpired(SpliceAt(queue, i), i - 1, rq, t, timeoutMs)
         IN [queue |-> rest.queue, rejected |-> <<queue[i]>> \o rest.rejected]
    ELSE SpliceExpired(queue, i - 1, rq, t, timeoutMs)

RECURSIVE RejectedFrom(_, _)
\* the reject calls of the tiers from p on, in Map order
RejectedFrom(per, p) ==
  IF p > BULK THEN <<>> ELSE per[p].rejected \o RejectedFrom(per, p + 1)

\* PriorityQueue.removeExpired(timeoutMs) at time t: one removed++ and one
\* totalSize-- per reject call
RemoveExpired(q, size, rq, t, timeoutMs) ==
  LET per == [p \in Tiers |-> SpliceExpired(q[p], Len(q[p]), rq, t, timeoutMs)]
      rejected == RejectedFrom(per, CRITICAL)
  IN [queues |-> [p \in Tiers |-> per[p].queue],
      totalSize |-> size - Len(rejected),
      rejected |-> rejected,
      removed |-> Len(rejected)]

\* a caller calls removeExpired(timeoutMs) and keeps what it returned; the
\* rejected requests leave the model
RXRemoveExpired(timeoutMs) ==
  LET rm == RemoveExpired(queues, totalSize, req, now, timeoutMs)
  IN /\ queues' = rm.queues
     /\ totalSize' = rm.totalSize
     /\ req' = Forget(req, SeqToSet(rm.rejected))
     /\ fifo' = [p \in Tiers |-> Filter(fifo[p], Reqs \ SeqToSet(rm.rejected))]
     /\ ret' = Returned("removeExpired", "",
                        [removed |-> rm.removed, rejected |-> rm.rejected,
                         error |-> "Request timed out in queue"])
     /\ UNCHANGED <<lcv, now, stv, ccv, mwv>>

\* a caller builds request r (priority p, timestamp ts, bucketId b) and calls
\* enqueue(r), keeping how the returned promise starts
RXEnqueue(r, p, ts, b) ==
  /\ r \notin InQueue(queues)
  /\ \A r2 \in Reqs \ InQueue(queues) : r <= r2
  /\ LET rq == [req EXCEPT ![r] = [priority |-> p, timestamp |-> ts, bucketId |-> b,
                                    maxRetries |-> MaxRetries,
                                    timeout |-> RequestTimeout]]
         e == Enqueue(queues, totalSize, rq, r)
     IN /\ queues' = e.queues
        /\ totalSize' = e.totalSize
        /\ req' = IF e.out = "queued" THEN rq ELSE req
        /\ fifo' = IF e.out = "queued" THEN [fifo EXCEPT ![p] = Append(@, r)] ELSE fifo
        /\ ret' = Returned("enqueue", b, e.out)
  /\ UNCHANGED <<lcv, now, stv, ccv, mwv>>

NextRX ==
  \/ \E r \in Reqs, p \in Priorities, ts \in Stamps, b \in Buckets :
       RXEnqueue(r, p, ts, b)
  \/ \E t \in Timeouts : RXRemoveExpired(t)
  \/ Tick

SpecRX == InitBM /\ [][NextRX]_vars

\* the queued requests older than timeoutMs
TooOld(timeoutMs) == {r \in InQueue(queues) : now - req[r].timestamp > timeoutMs}

\* C28: removeExpired(t) removes exactly the queued requests older than t,
\* calls reject with the timeout error once on each of them, returns their
\* number, and leaves every other request in its tier, in the same order
C28_RemoveExpired ==
  [][\A t \in Timeouts :
       RXRemoveExpired(t) =>
         /\ InQueue(queues') = InQueue(queues) \ TooOld(t)
         /\ SeqToSet(ret'.val.rejected) = TooOld(t)
         /\ Len(ret'.val.rejected) = Cardinality(TooOld(t))
         /\ ret'.val.error = "Request timed out in queue"
         /\ ret'.val.removed = Cardinality(TooOld(t))
         /\ totalSize' = totalSize - Cardinality(TooOld(t))
         /\ \A p \in Tiers : queues'[p] = Filter(queues[p], Reqs \ TooOld(t))
         /\ \A r \in InQueue(queues') : req'[r] = req[r]]_vars

\* C28 witness: a removeExpired call has rejected one request and left a
\* younger one in the queue
C28_Witness ==
  /\ ret.op = "removeExpired"
  /\ ret.val.removed = 1
  /\ totalSize = 1
  /\ \E r \in InQueue(queues) : req[r].timestamp = 1

\* ----------------------------------------------------- promoteRequests
\* the PriorityQueue with callers that enqueue, dequeue and promote
NextPR ==
  \/ \E r \in Reqs, p \in Priorities, ts \in Stamps, b \in Buckets :
       PQEnqueue(r, p, ts, b)
  \/ PQDequeue
  \/ \E b \in Buckets, np \in PromoteTargets : PQPromoteRequests(b, np)

SpecPR == InitPQ /\ [][NextPR]_vars

\* the tier whose array holds request r, NoTier when none does
TierOf(q, r) ==
  IF r \in InQueue(q) THEN CHOOSE p \in Tiers : r \in SeqToSet(q[p]) ELSE NoTier

\* the queued requests of bucket b in the tiers below tier p
Promotable(b, p) ==
  {r \in InQueue(queues) : req[r].bucketId = b /\ TierOf(queues, r) > p}

\* C29: promoteRequests(b, p) with p a tier moves the queued requests of
\* bucket b from the tiers numerically greater than p into tier p, setting
\* their priority to p, and changes nothing else: the total size, the tier of
\* every other request, the other fields of the requests and the promises
C29_PromoteFrame ==
  [][\A b \in Buckets, p \in PromoteTargets \cap Tiers :
       PQPromoteRequests(b, p) =>
         /\ totalSize' = totalSize
         /\ InQueue(queues') = InQueue(queues)
         /\ \A r \in Promotable(b, p) :
              /\ TierOf(queues', r) = p
              /\ req'[r] = [req[r] EXCEPT !.priority = p]
         /\ \A r \in InQueue(queues) \ Promotable(b, p) :
              /\ TierOf(queues', r) = TierOf(queues, r)
              /\ req'[r] = req[r]
         /\ UNCHANGED <<promise, calls, phase>>]_vars

\* C29 witness: a request has been promoted into tier HIGH while a request of
\* another bucket stays in a tier below
C29_Witness ==
  \E r1, r2 \in InQueue(queues) :
    /\ TierOf(queues, r1) = HIGH
    /\ req[r1].priority = HIGH
    /\ TierOf(queues, r2) > HIGH
    /\ req[r2].bucketId # req[r1].bucketId
    /\ totalSize = 2

\* ------------------------------------------------- the loop and its calls
\* the requests whose transport call, started by the drain loop, has not
\* returned
DrainCalls == {r \in Reqs : phase[r] = "flight" /\ path[r] = "drain"}

\* C30: the drain loop does not wait for a request it dispatched: the step
\* that starts a transport call leaves the loop at its next dequeue, and the
\* loop's dequeue is possible whatever calls are still in flight
C30_LoopDoesNotWait ==
  /\ [][\A r \in Reqs :
          (loopPc = "check" /\ loopReq = r /\ phase'[r] = "flight") =>
            (loopPc' = "run" /\ r \in DrainCalls')]_vars
  /\ []((loopPc = "run" /\ processing /\ DrainCalls # {}) => ENABLED LoopDequeue)

\* C30 witness: two transport calls started by the loop are in flight at once
\* and the loop is about to dequeue again
C30_Witness ==
  /\ Cardinality(DrainCalls) >= 2
  /\ loopPc = "run"
  /\ processing

\* ------------------------------------------------- the loop's re-check
\* C31: a dequeued request whose bucket limit or the global limit is active
\* at the loop's admission re-check is not dispatched: when the loop leaves
\* the re-check the request is in the queue again, in its own tier, and no
\* transport call has been started for it
C31_BlockedPutBack ==
  [][\A r \in Reqs :
       (loopPc = "check" /\ loopReq = r /\ loopPc' # "check"
          /\ MWIsRateLimited(buckets, globalLimit, req[r].bucketId, now).limited) =>
         /\ phase'[r] # "flight"
         /\ sends'[r] = sends[r]
         /\ r \in SeqToSet(queues'[req[r].priority])]_vars

\* ----------------------------------------- the background tasks at shutdown
\* enqueue, the drain loop, the cleanup interval and shutdown
NextSH ==
  \/ \E r \in Reqs, p \in MWPriorities, b \in MWBuckets : MWExecute(r, p, b)
  \/ LoopDequeue
  \/ LoopCheck
  \/ LoopWake
  \/ LoopExit
  \/ \E r \in Reqs, resp \in FinalResponses : MWRespond(r, resp)
  \/ CleanupTick
  \/ OrchShutdown
  \/ Tick

SpecSH == InitBM /\ [][NextSH]_vars

\* the event loop runs the drain loop's continuations and timers
FairSpecSH ==
  /\ SpecSH
  /\ WF_vars(LoopDequeue)
  /\ WF_vars(LoopCheck)
  /\ WF_vars(LoopWake)
  /\ WF_vars(LoopExit)

\* C32: once shutdown() has been called the drain loop dequeues nothing more
\* and eventually terminates, and the cleanup tick does not fire again
C32_BackgroundStops ==
  /\ [][isShutdown => ~LoopDequeue]_vars
  /\ [][isShutdown => ~CleanupTick]_vars
  /\ isShutdown ~> (loopPc = "exit")
  /\ [][loopPc = "exit" => loopPc' = "exit"]_vars

\* C32 witness: shutdown() was called while the loop held a request for its
\* admission check, and the loop has terminated since
C32_Witness ==
  /\ isShutdown
  /\ loopPc = "exit"
  /\ \E r \in atShutdown : phase[r] \notin {"queued", "held"}
  /\ \E r \in Reqs : phase[r] = "flight" /\ path[r] = "drain"

\* ------------------------------------------------- bucket id resolution
\* a URL is the sequence of its path segments, of up to UrlLen segments
UrlLen == 3
\* path segments: route words, and the numeric resource ids \d+ matches
NumericIds == {"1", "2"}
Segments == {"channels", "messages", "users", "widgets"} \cup NumericIds
Urls == UNION {[1..n -> Segments] : n \in 1..UrlLen}
Methods == {"GET", "POST"}

\* the patterns of extractUrlPattern, in their order; "\\d+" is the digits
KnownPatterns ==
  << <<"channels", "\\d+", "messages">>,
     <<"guilds", "\\d+", "members">>,
     <<"guilds", "\\d+", "bans">>,
     <<"users", "\\d+">>,
     <<"webhooks", "\\d+">>,
     <<"interactions">> >>

\* pattern.test(url): the pattern is found at some place of the URL
PatternTest(pat, url) ==
  \E i \in 0..(Len(url) - Len(pat)) :
    \A k \in 1..Len(pat) :
      IF pat[k] = "\\d+" THEN url[i + k] \in NumericIds ELSE url[i + k] = pat[k]

\* pattern.source with \/ written / and \d+ written {id}
PatternSource(pat) == [k \in 1..Len(pat) |-> IF pat[k] = "\\d+" THEN "{id}" ELSE pat[k]]

RECURSIVE FirstPattern(_, _)
\* the for loop over the patterns from index i: the first that matches
FirstPattern(url, i) ==
  IF i > Len(KnownPatterns) THEN 0
  ELSE IF PatternTest(KnownPatterns[i], url) THEN i ELSE FirstPattern(url, i + 1)

\* extractUrlPattern(url): the source of the first pattern that matches, the
\* URL's pathname when none does
ExtractUrlPattern(url) ==
  IF FirstPattern(url, 1) # 0
    THEN PatternSource(KnownPatterns[FirstPattern(url, 1)])
    ELSE url

\* extractBucketIdFromRequest(request) for a request with no bucketId:
\* `bucket:${urlPattern}:${request.method}`
ExtractBucketIdFromRequest(url, method) == <<"bucket", ExtractUrlPattern(url), method>>

\* the URLs that differ from url in numeric resource ids only
SameRoute(url) ==
  {[k \in 1..Len(url) |-> IF url[k] \in NumericIds THEN f[k] ELSE url[k]] :
     f \in [1..Len(url) -> NumericIds]}

\* two requests of one method for two resources of one route have their
\* bucket ids resolved
ResolveTwo(u1, u2, method) ==
  /\ ret' = Returned("extractBucketId", <<u1, u2, method>>,
                     <<ExtractBucketIdFromRequest(u1, method),
                       ExtractBucketIdFromRequest(u2, method)>>)
  /\ UNCHANGED <<lcv, pqv, mwv, stv, ccv, now>>

NextBI ==
  \E u1 \in Urls, method \in Methods : \E u2 \in SameRoute(u1) : ResolveTwo(u1, u2, method)

SpecBI == InitBM /\ [][NextBI]_vars

\* C33: two requests with the same method whose URLs differ only in numeric
\* resource ids resolve to the same bucket id
C33_SameRouteSameBucket ==
  ret.op = "extractBucketId" => ret.val[1] = ret.val[2]

\* ------------------------------------------------- the queue's counter
\* C34: getTotalSize() equals the sum of getQueueSize(p) over the five tiers
C34_SizeIsSum == totalSize = Held(queues)

\* C34 witness: after a promotion into tier LOW and a removal, one request
\* is left in tier LOW
C34_Witness ==
  /\ Len(queues[LOW]) = 1
  /\ totalSize = 1
  /\ \E r \in Reqs \ InQueue(queues) : req[r] = FreshReq /\ r < NReq
  /\ now > 0

\* ------------------------------------------------- after shutdown()
\* C35: after shutdown() has completed the priority queue is empty in every
\* later state
C35_EmptyAfterShutdown ==
  isShutdown => (InQueue(queues) = {} /\ totalSize = 0)

\* C36: after shutdown() has completed the transport function is not
\* invoked again, for any request
C36_NoSendAfterShutdown ==
  [][isShutdown => \A r \in Reqs : sends'[r] = sends[r]]_vars

\* ------------------------------------------------- the head of the queue
\* the server reports bucket b1 exhausted for a window that outlasts the
\* clock: a bucket that stays rate limited
LongLimits ==
  {[global |-> FALSE, bucket |-> "b1", limit |-> 1, remaining |-> 0,
    resetAfter |-> MaxTime + 1]}

\* a response carried rate-limit numbers: orchestrator.handleRateLimit(info)
HLHandleRateLimit(info) ==
  /\ info.global => now + info.resetAfter <= MaxTime
  /\ HandleRateLimit(info)
  /\ UNCHANGED <<lcv, now, ret, pqv, mwv, ccv>>

\* requests of two buckets, the drain loop, global limits that lapse and a
\* bucket limit that stays
NextHL ==
  \/ \E r \in Reqs, b \in Buckets : MWExecute(r, NORMAL, b)
  \/ LoopDequeue
  \/ LoopCheck
  \/ LoopWake
  \/ \E r \in Reqs, resp \in FinalResponses : MWRespond(r, resp)
  \/ \E info \in MWInfos \cup LongLimits : HLHandleRateLimit(info)
  \/ Tick

SpecHL == InitBM /\ [][NextHL]_vars

\* the event loop runs the drain loop's continuations and timers, the
\* transport answers, the clock advances
FairSpecHL ==
  /\ SpecHL
  /\ WF_vars(LoopDequeue)
  /\ WF_vars(LoopCheck)
  /\ WF_vars(LoopWake)
  /\ \A r \in Reqs : WF_vars(\E resp \in FinalResponses : MWRespond(r, resp))
  /\ WF_vars(Tick)

\* request r is in the queue and neither its bucket's limit nor the global
\* limit is active
QueuedAdmissible(r) ==
  /\ phase[r] = "queued"
  /\ ~MWIsRateLimited(buckets, globalLimit, req[r].bucketId, now).limited

\* C37: under fair scheduling a queued request whose bucket limit and the
\* global limit are not active does not stay in the queue for ever: it is
\* dispatched by the drain loop, whatever is ahead of it in the queue
C37_NoHeadOfLineBlocking ==
  \A r \in Reqs : []<>(~QueuedAdmissible(r))

\* ------------------------------------------------- promoteRequests, any target
\* C38: promoteRequests(b, newPriority) removes no request from the queue
\* without re-inserting it, for every newPriority value: the set of queued
\* requests is the same before and after the call
C38_PromoteKeepsRequests ==
  [][\A b \in Buckets, np \in PromoteTargets :
       PQPromoteRequests(b, np) => InQueue(queues') = InQueue(queues)]_vars

\* ------------------------------------------------------------- clearAll
\* the bucket API and clearAll while the server reports limits
NextCA ==
  \/ \E b \in Buckets : BMConsume(b)
  \/ \E b \in Buckets : OrchIsRateLimited(b)
  \/ \E info \in Infos : OrchHandleRateLimit(info)
  \/ OrchClearAll
  \/ Tick

SpecCA == InitBM /\ [][NextCA]_vars

\* C39: after clearAll() no rate-limit state remains: isRateLimited(b) is
\* false for every bucket id b
C39_ClearAllClearsLimits ==
  [][OrchClearAll =>
       \A b \in Buckets : ~MWIsRateLimited(buckets', globalLimit', b, now').limited]_vars

\* ------------------------------------------- executeRequest's counters
\* how a transport attempt ends: a response with a 2xx, 429, other 4xx or
\* 5xx status, or no response (the timeout promise or the client rejects
\* with an error whose message has the word "timeout")
Answers == {"2xx", "429", "4xx", "5xx", "timeout"}
\* the answers that are responses with a status outside 2xx and 429
ErrorStatus == {"4xx", "5xx"}

\* the response class that decides what executeRequest does next
ResponseOf(answer) ==
  CASE answer = "2xx" -> "ok"
    [] answer = "429" -> "limited"
    [] answer = "4xx" -> "fatal"
    [] answer = "5xx" -> "error"
    [] answer = "timeout" -> "fatalTimeout"

\* the store's metrics after executeRequest handled an attempt's answer:
\* handleRateLimitResponse counts a 429, the 2xx branch counts a success, the
\* error branch counts a failure and throws inside the try, and the catch
\* block counts a failure for whatever it catches
ExecuteRequestMetrics(m, answer) ==
  LET inTry == CASE answer = "429" -> IncrementMetric(m, "rateLimitedRequests")
                 [] answer = "2xx" -> IncrementMetric(m, "successfulRequests")
                 [] answer \in ErrorStatus -> IncrementMetric(m, "failedRequests")
                 [] OTHER -> m
      caught == answer \in ErrorStatus \cup {"timeout"}
  IN IF caught THEN IncrementMetric(inTry, "failedRequests") ELSE inTry

\* the sum of the counters that record how attempts ended
Outcomes(m) == m.successfulRequests + m.rateLimitedRequests + m.failedRequests

\* executeRequest: the attempt of request r ends with answer, the counters
\* followed while fewer than MaxCount + 1 attempts have been counted
MTRespond(r, answer) ==
  /\ Outcomes(metrics) <= MaxCount
  /\ ExecuteRequest(r, ResponseOf(answer))
  /\ metrics' = ExecuteRequestMetrics(metrics, answer)

\* requests submitted, drained, answered and retried
NextMT ==
  \/ \E r \in Reqs, b \in MWBuckets : MWExecute(r, NORMAL, b)
  \/ LoopDequeue
  \/ LoopCheck
  \/ LoopWake
  \/ \E r \in Reqs, answer \in Answers : MTRespond(r, answer)
  \/ \E r \in Reqs : MWRetryFire(r)
  \/ Tick

SpecMT == InitBM /\ [][NextMT]_vars

\* C40: each transport attempt changes the outcome counters by exactly one
\* in total: a 2xx response increments successfulRequests once, a response
\* outside 2xx and 429 or a transport error increments failedRequests once
C40_OneOutcomePerAttempt ==
  [][\A r \in Reqs, answer \in Answers :
       MTRespond(r, answer) =>
         /\ Outcomes(metrics') = Outcomes(metrics) + 1
         /\ answer = "2xx" =>
              metrics'.successfulRequests = metrics.successfulRequests + 1
         /\ answer \in ErrorStatus \cup {"timeout"} =>
              metrics'.failedRequests = metrics.failedRequests + 1]_vars

====
